---- MODULE Spec2Model ----
(***************************************************************************)
(* Booking API (src/index.js, the MongoDB revision with security           *)
(* middleware, lines 1140-2544): the request handlers of the bookings and  *)
(* config endpoints, connectDB and the e-mail senders, as interleaved      *)
(* processes over one bookings collection and one config document.  Every  *)
(* `await` of a handler is a point where other handlers run, so each       *)
(* handler is cut into one action per database round trip.                 *)
(*                                                                         *)
(* JavaScript values:                                                      *)
(*   - a string field that is undefined or "" is written "" (the handlers  *)
(*     only test such fields for truthiness); a date string YYYY-MM-DD is  *)
(*     the tuple <<y, m, d>> of its numbers, a time string HH:MM the tuple *)
(*     <<h, m>>, and <<>> is the missing (falsy) string;                   *)
(*   - a body field that may be a number or absent (slotsPerHour) is a     *)
(*     tagged value JsUndef / JsNum(n);                                    *)
(*   - an invalid Date's time value is JsNaN, and every comparison with    *)
(*     NaN is false.                                                       *)
(* Time is in milliseconds since local midnight of 2026-01-20.             *)
(***************************************************************************)
EXTENDS Integers, FiniteSets, Sequences, TLC

VARIABLES
  clock,     \* Date.now(), in ms since 2026-01-20T00:00 local time
  bookings,  \* the documents of collection 'bookings'
  config,    \* document {_id: 'settings'} of collection 'config', or NoConfig
  pc,        \* per request: where its handler stands
  req,       \* per request: the request body
  loc,       \* per request: the handler's local constants
  resp,      \* per request: HTTP status of the response sent, 0 = none yet
  sent,      \* notification e-mails handed to the Notification Sink
  data,      \* per request: the data of the response sent (getConfig, details)
  db,        \* the module variable `db`: the shared handle, or NoDb
  clients,   \* the MongoClient objects created so far
  settled,   \* the outcomes of the notification e-mails that have completed
  hits       \* the store of bookingLimiter for the client IP: hit count and reset time

vars == <<clock, bookings, config, pc, req, loc, resp, sent, data, db, clients, settled, hits>>

----------------------------------------------------------------------------
(* Bounds of the model *)

\* requests of the concurrent specification
NumReq == 3
\* requests of the sequential specification
NumSeq == 4
\* requests of the specification with wide request bodies
NumIn == 2
\* requests of the specification of two tenants
NumTen == 4
\* requests of the notification specification
NumMail == 2
\* requests of the specification with fairness
NumFair == 2
\* callers of connectDB
NumConn == 3
\* requests of the specification of the details endpoint
NumDet == 2
\* requests of the configuration specification
NumCfg == 3
\* requests of the specification of the look-ups that find nothing
NumMiss == 5
\* requests of the specification of the two listings
NumList == 3
\* requests of the specification of the malformed creations
NumForm == 3
\* requests of the specification of the rate limiter
NumLimit == 7
\* requests of the specification of the closing cancellation window
NumWin == 4
\* requests of the specification of the overlapping configuration requests
NumRace == 3
\* requests of the specification of the request-level capacities
NumCap == 3
\* requests of the specification of the reading operations
NumFrame == 3
\* requests of the specification of the failing repository
NumFail == 3
\* requests of the specification of the handlers that end
NumTerm == 2
\* half windows of the rate limiter that the clock may advance by
MaxHalfTicks == 2
\* concurrent creations of the storm specification (capacity 1, so N = capacity + 5)
NumStorm == 6
\* millisecond ticks the clock may take after each coarse position
MaxMs == 1
\* coarse clock advances
MaxHourTicks == 1
\* hours of one coarse clock advance
TickHours == 7

----------------------------------------------------------------------------
(* Program constants *)

MsPerHour == 3600000
\* the 6-hour rule of the cancel handler
WindowHours == 6
\* `slotsPerHour || 1`
DefaultSlots == 1
\* bookingLimiter, windowMs: 60 * 1000
LimiterWindowMs == 60 * 1000
\* bookingLimiter, max: 5
BookingMax == 5

----------------------------------------------------------------------------
(* JavaScript values *)

JsUndef == [t |-> "undefined"]
JsNum(n) == [t |-> "number", v |-> n]

\* truthiness of a number-or-undefined value: undefined and 0 are falsy
Truthy(x) == x.t = "number" /\ x.v # 0

\* x || d, for a number d
OrElse(x, d) == IF Truthy(x) THEN x.v ELSE d

JsNaN == [t |-> "NaN"]

\* a string value, as the sequence of its characters
JsStr(cs) == [t |-> "string", s |-> cs]

\* a - b on time values: NaN when a is NaN
Minus(a, b) == IF a.t = "number" THEN JsNum(a.v - b) ELSE JsNaN

\* a < b, false when a is NaN
LessThan(a, b) == a.t = "number" /\ a.v < b

\* a >= b, false when a is NaN
AtLeast(a, b) == a.t = "number" /\ a.v >= b

----------------------------------------------------------------------------
(* Strings of the request body *)

Missing == <<>>

\* /^\d{4}-\d{2}-\d{2}$/.test(date)
DateFormatOK(date) ==
  /\ Len(date) = 3
  /\ date[1] \in 0..9999 /\ date[2] \in 0..99 /\ date[3] \in 0..99

\* /^\d{2}:\d{2}$/.test(time)
TimeFormatOK(time) ==
  /\ Len(time) = 2
  /\ time[1] \in 0..99 /\ time[2] \in 0..99

\* the characters of the addresses of the model
EmailChars(email) ==
  CASE email = "c@x.io" -> <<"c", "@", "x", ".", "i", "o">>
    [] email = "a@b.com" -> <<"a", "@", "b", ".", "c", "o", "m">>
    [] email = "A@B.com " -> <<"A", "@", "B", ".", "c", "o", "m", " ">>
    [] email = "nope" -> <<"n", "o", "p", "e">>
    [] email = "a@b" -> <<"a", "@", "b">>
    [] email = "a b@x.io" -> <<"a", " ", "b", "@", "x", ".", "i", "o">>
    [] email = "@x.io" -> <<"@", "x", ".", "i", "o">>
    [] OTHER -> <<>>

\* a test that asks for an @ only
EmailHasAt(email) == \E i \in DOMAIN EmailChars(email) : EmailChars(email)[i] = "@"

\* /^[^\s@]+@[^\s@]+\.[^\s@]+$/.test(email): one @ and no white space, a
\* character before the @, and after it a dot with a character on each side
EmailFormatOK(email) ==
  LET cs == EmailChars(email) IN
  \E i \in DOMAIN cs :
    /\ cs[i] = "@" /\ i > 1
    /\ \A j \in DOMAIN cs \ {i} : cs[j] \notin {" ", "@"}
    /\ \E k \in DOMAIN cs : k > i + 1 /\ k < Len(cs) /\ cs[k] = "."

\* clinicEmail ? clinicEmail.toLowerCase().trim() : ''
NormEmail(e) == IF e = "" THEN "" ELSE IF e = "A@B.com " THEN "a@b.com" ELSE e

\* new Date(`${date}T${time}`): the time value in ms, NaN for an invalid date
bookingDateTime(date, time) ==
  IF /\ date[1] = 2026 /\ date[2] = 1 /\ date[3] \in 1..31
     /\ time[1] \in 0..23 /\ time[2] \in 0..59
  THEN JsNum(((date[3] - 20) * 24 + time[1]) * MsPerHour + time[2] * 60000)
  ELSE JsNaN

----------------------------------------------------------------------------
(* The two collections *)

NoConfig == <<>>

Date1 == <<2026, 1, 20>>
\* 09:00, a valid time of day
Time1 == <<9, 0>>
\* matches \d{2}:\d{2} and is no time of day: its Date is invalid
Time2 == <<99, 99>>

\* crypto.randomBytes(32).toString('hex'): a fresh secret for each creating request
generateCancelToken(r) == <<"tok", r>>

\* the filter with clinicEmail forgotten: the slot counted over all tenants
OccupyingAnyTenant(date, time, clinicEmail) ==
  {b \in bookings : /\ b.date = date /\ b.time = time
                    /\ b.status \notin {"cancelled", "no-show"}}

\* the filter without the statuses: {date, time, clinicEmail}
OccupyingAnyStatus(date, time, clinicEmail) ==
  {b \in bookings : b.date = date /\ b.time = time /\ b.clinicEmail = clinicEmail}

\* the documents a filter {date, time, clinicEmail, status: {$nin: [...]}} matches
Occupying(date, time, clinicEmail) ==
  {b \in bookings : /\ b.date = date /\ b.time = time
                    /\ b.clinicEmail = clinicEmail
                    /\ b.status \notin {"cancelled", "no-show"}}

\* countDocuments of that filter
countDocuments(date, time, clinicEmail) == Cardinality(Occupying(date, time, clinicEmail))

\* the filter without the token: {id, status: {$ne: 'cancelled'}}
FindMatchesAnyToken(id, token) ==
  {b \in bookings : b.id = id /\ b.status # "cancelled"}

\* the documents a filter {id, cancelToken, status: {$ne: 'cancelled'}} matches
FindMatches(id, token) ==
  {b \in bookings : b.id = id /\ b.cancelToken = token /\ b.status # "cancelled"}

\* the documents a filter {id} matches
IdMatches(id) == {b \in bookings : b.id = id}

NoBooking == [_id |-> 0]

\* `let db = null`
NoDb == <<>>
\* the handle client.db(DB_NAME) of the client that caller r created
Handle(r) == <<"db", r>>
\* the caller of connectDB in the app.listen callback
Startup == 0

NoLoc == [maxSlots |-> 0, existingCount |-> 0, booking |-> NoBooking, config |-> NoConfig,
          database |-> NoDb, docs |-> <<>>]

\* no data in the response
NoData == <<>>

\* no request of the client IP has been counted yet
NoHits == [count |-> 0, resetTime |-> 0]

----------------------------------------------------------------------------
(* Request bodies *)

CreateBody(date, time, clinicEmail, email, slotsPerHour) ==
  [kind |-> "create", date |-> date, time |-> time, clinicEmail |-> clinicEmail,
   email |-> email, slotsPerHour |-> slotsPerHour]

CancelBody(id, token, owner) ==
  [kind |-> "cancel", id |-> id, token |-> token, owner |-> owner]

ConfigBody(slotsPerHour) == [kind |-> "setConfig", slotsPerHour |-> slotsPerHour]

\* DELETE /api/bookings/:id
DeleteBody(id) == [kind |-> "delete", id |-> id]

NoReq == [kind |-> "none"]

Reqs == DOMAIN pc

InFlight(r) == pc[r] \notin {"idle", "done"}

----------------------------------------------------------------------------
(* The clock *)

\* the server is started exactly WindowHours before the appointment Date1 Time1
StartClock == bookingDateTime(Date1, Time1).v - WindowHours * MsPerHour

MsPart == clock % MsPerHour
HourPart == clock \div MsPerHour

\* a millisecond passes
TickMs ==
  /\ MsPart < MaxMs
  /\ clock' = clock + 1
  /\ UNCHANGED <<bookings, config, pc, req, loc, resp, sent, data, db, clients, settled, hits>>

\* half a window of the rate limiter passes
TickHalf ==
  /\ clock + LimiterWindowMs \div 2 <= StartClock + MaxHalfTicks * (LimiterWindowMs \div 2)
  /\ clock' = clock + LimiterWindowMs \div 2
  /\ UNCHANGED <<bookings, config, pc, req, loc, resp, sent, data, db, clients, settled, hits>>

\* hours pass
TickHour ==
  /\ HourPart < (StartClock \div MsPerHour) + MaxHourTicks * TickHours
  /\ clock' = (HourPart + TickHours) * MsPerHour
  /\ UNCHANGED <<bookings, config, pc, req, loc, resp, sent, data, db, clients, settled, hits>>

----------------------------------------------------------------------------
(* A request arrives.  Requests are numbered in the order they arrive. *)

Arrives(r, body) ==
  /\ pc[r] = "idle"
  /\ \A q \in Reqs : q < r => pc[q] # "idle"
  /\ req' = [req EXCEPT ![r] = body]

\* res.status(code).json(...) ending the handler
Reply(r, code) ==
  /\ resp' = [resp EXCEPT ![r] = code]
  /\ pc' = [pc EXCEPT ![r] = "done"]

\* the handler has returned: its local constants are gone
Forget(r) == loc' = [loc EXCEPT ![r] = NoLoc]

----------------------------------------------------------------------------
(* POST /api/bookings *)

\* the validations with those of `time` forgotten
CreateInvalidDateOnly(b) ==
  \/ b.date = Missing
  \/ ~DateFormatOK(b.date)
  \/ (b.email # "" /\ ~EmailFormatOK(b.email))

\* the four validations before the first await
CreateInvalid(b) ==
  \/ b.date = Missing \/ b.time = Missing
  \/ ~DateFormatOK(b.date)
  \/ ~TimeFormatOK(b.time)
  \/ (b.email # "" /\ ~EmailFormatOK(b.email))

\* const maxSlots = slotsPerHour || 1
maxSlotsOf(b) == OrElse(b.slotsPerHour, DefaultSlots)

\* the handler is entered: validation, then `await connectDB()`
CreateEnter(r, body) ==
  /\ Arrives(r, body)
  /\ IF CreateInvalid(body)
     THEN Reply(r, 400)
     ELSE pc' = [pc EXCEPT ![r] = "count"] /\ UNCHANGED resp
  /\ UNCHANGED <<clock, bookings, config, loc, sent, data, db, clients, settled>>

\* a request that bookingLimiter lets pass and does not count against the
\* client IP of the requests it counts
CreateValidate(r, body) == CreateEnter(r, body) /\ UNCHANGED hits

\* the store of the limiter after one more request of the client IP: a new
\* window of windowMs starts with the first request and with the first one
\* after the reset time, a request within the window adds one
Increment(h) ==
  IF h.count = 0 \/ clock >= h.resetTime
  THEN [count |-> 1, resetTime |-> clock + LimiterWindowMs]
  ELSE [count |-> h.count + 1, resetTime |-> h.resetTime]

\* a limiter that lets one request more pass
OverLimitByTwo(count) == count > BookingMax + 1

\* totalHits > max
OverLimit(count) == count > BookingMax

\* the data of the 429 response
TooManyAttempts ==
  [success |-> FALSE, error |-> "Too many booking attempts. Please wait a moment."]

\* a request of the client IP arrives at POST /api/bookings: bookingLimiter
\* counts it and answers 429 or calls the handler; the request keeps the time
\* it arrived at
LimitedCreate(r, body) ==
  /\ hits' = Increment(hits)
  /\ IF OverLimit(Increment(hits).count)
     THEN /\ Arrives(r, body @@ [at |-> clock])
          /\ Reply(r, 429)
          /\ data' = [data EXCEPT ![r] = TooManyAttempts]
          /\ UNCHANGED <<clock, bookings, config, loc, sent, db, clients, settled>>
     ELSE CreateEnter(r, body @@ [at |-> clock])

\* maxSlots is fixed and countDocuments runs in the database
CreateCount(r) ==
  /\ pc[r] = "count"
  /\ loc' = [loc EXCEPT ![r].maxSlots = maxSlotsOf(req[r]),
                        ![r].existingCount =
                           countDocuments(req[r].date, req[r].time, NormEmail(req[r].clinicEmail))]
  /\ pc' = [pc EXCEPT ![r] = "check"]
  /\ UNCHANGED <<clock, bookings, config, req, resp, sent, data, db, clients, settled, hits>>

\* the booking document of the handler
NewBooking(r) ==
  [_id |-> r, id |-> clock, date |-> req[r].date, time |-> req[r].time,
   email |-> NormEmail(req[r].email), cancelToken |-> generateCancelToken(r),
   status |-> "confirmed", clinicEmail |-> NormEmail(req[r].clinicEmail),
   createdAt |-> clock]

\* the comparison off by one: existingCount > maxSlots
SlotFullOffByOne(existingCount, maxSlots) == existingCount > maxSlots

\* existingCount >= maxSlots
SlotFull(existingCount, maxSlots) == existingCount >= maxSlots

\* the count has come back: 409, or build the document and call insertOne
CreateCheck(r) ==
  /\ pc[r] = "check"
  /\ IF SlotFull(loc[r].existingCount, loc[r].maxSlots)
     THEN Reply(r, 409) /\ Forget(r)
     ELSE /\ loc' = [loc EXCEPT ![r].booking = NewBooking(r)]
          /\ pc' = [pc EXCEPT ![r] = "insert"]
          /\ UNCHANGED resp
  /\ UNCHANGED <<clock, bookings, config, req, sent, data, db, clients, settled, hits>>

\* insertOne runs in the database
CreateInsert(r) ==
  /\ pc[r] = "insert"
  /\ bookings' = bookings \cup {loc[r].booking}
  /\ pc' = [pc EXCEPT ![r] = "created"]
  /\ UNCHANGED <<clock, config, req, loc, resp, sent, data, db, clients, settled, hits>>

\* a call of one of the five senders by the handler of request r
Mail(r, sender, to) == [by |-> r, mail |-> sender, to |-> to]

\* both e-mails, whatever the request carries
CreateMailsAlways(r) ==
  {Mail(r, "sendConfirmationEmail", NormEmail(req[r].email)),
   Mail(r, "sendOwnerBookingNotification", NormEmail(req[r].clinicEmail))}

\* the e-mails dispatched after the insert
CreateMails(r) ==
  (IF req[r].email # ""
   THEN {Mail(r, "sendConfirmationEmail", NormEmail(req[r].email))} ELSE {})
  \cup
  (IF req[r].clinicEmail # ""
   THEN {Mail(r, "sendOwnerBookingNotification", NormEmail(req[r].clinicEmail))} ELSE {})

\* the data of the 200 response: bookingId and id, both booking.id
CreatedData(b) == [bookingId |-> b.id, id |-> b.id]

\* the handler with `await` before its senders: it dispatches, and answers once
\* every e-mail has completed
CreateRespondAwaiting(r) ==
  /\ pc[r] = "created"
  /\ IF ~(CreateMails(r) \subseteq sent)
     THEN sent' = sent \cup CreateMails(r) /\ UNCHANGED <<pc, resp, loc>>
     ELSE /\ \A m \in CreateMails(r) : \E o \in settled : o.by = m.by /\ o.mail = m.mail
          /\ Reply(r, 200) /\ Forget(r) /\ UNCHANGED sent
  /\ data' = [data EXCEPT ![r] = CreatedData(loc[r].booking)]
  /\ UNCHANGED <<clock, bookings, config, req, db, clients, settled, hits>>

\* the insert has come back: dispatch the e-mails, answer 200
CreateRespond(r) ==
  /\ pc[r] = "created"
  /\ sent' = sent \cup CreateMails(r)
  /\ Reply(r, 200)
  /\ data' = [data EXCEPT ![r] = CreatedData(loc[r].booking)]
  /\ Forget(r)
  /\ UNCHANGED <<clock, bookings, config, req, db, clients, settled, hits>>

\* the awaited calls of the handler that are pending at its position
PendingCalls(r) ==
  IF pc[r] = "count" THEN {"connectDB", "countDocuments"}
  ELSE IF pc[r] = "insert" THEN {"insertOne"}
  ELSE IF pc[r] = "find" THEN {"connectDB", "findOne"}
  ELSE IF pc[r] = "delete" THEN {"deleteOne"}
  ELSE IF pc[r] = "upsert" THEN {"connectDB", "updateOne"}
  ELSE IF pc[r] = "cfgFind" THEN {"connectDB", "findOne"}
  ELSE IF pc[r] = "cfgInsert" THEN {"insertOne"}
  ELSE {}

\* the catch that also tells the client and the owner
CreateFailsNotifying(r, call) ==
  /\ req[r].kind = "create"
  /\ call \in PendingCalls(r)
  /\ Reply(r, 500)
  /\ data' = [data EXCEPT ![r] = [success |-> FALSE, error |-> call]]
  /\ sent' = sent \cup CreateMails(r)
  /\ Forget(r)
  /\ UNCHANGED <<clock, bookings, config, req, db, clients, settled, hits>>

\* an awaited call of the handler rejects without having stored anything: the
\* catch answers 500 with the message of the error
CreateFails(r, call) ==
  /\ req[r].kind = "create"
  /\ call \in PendingCalls(r)
  /\ Reply(r, 500)
  /\ data' = [data EXCEPT ![r] = [success |-> FALSE, error |-> call]]
  /\ Forget(r)
  /\ UNCHANGED <<clock, bookings, config, req, sent, db, clients, settled, hits>>

----------------------------------------------------------------------------
(* POST /api/bookings/cancel *)

\* nobody cancels as the owner
isOwnerCancelNever(b) == FALSE

\* owner === true || owner === 'true'
isOwnerCancel(b) == b.owner

\* the request arrives: `!token || !id`, then `await connectDB()`
CancelValidate(r, body) ==
  /\ Arrives(r, body)
  /\ IF body.token = Missing \/ body.id = 0
     THEN Reply(r, 400)
     ELSE pc' = [pc EXCEPT ![r] = "find"] /\ UNCHANGED resp
  /\ UNCHANGED <<clock, bookings, config, loc, sent, data, db, clients, settled, hits>>

\* findOne runs in the database: a matching document, or null
CancelFind(r) ==
  /\ pc[r] = "find"
  /\ \E b \in IF FindMatches(req[r].id, req[r].token) = {} THEN {NoBooking}
              ELSE FindMatches(req[r].id, req[r].token) :
        loc' = [loc EXCEPT ![r].booking = b]
  /\ pc' = [pc EXCEPT ![r] = "found"]
  /\ UNCHANGED <<clock, bookings, config, req, resp, sent, data, db, clients, settled, hits>>

\* (bookingDateTime - now), in ms
msUntilBooking(b) == Minus(bookingDateTime(b.date, b.time), clock)

\* the rule with the boundary on the wrong side: hoursUntilBooking <= 6
TooLateInclusive(b) == LessThan(msUntilBooking(b), WindowHours * MsPerHour + 1)

\* hoursUntilBooking < 6
TooLate(b) == LessThan(msUntilBooking(b), WindowHours * MsPerHour)

\* the data of the 404 response of POST /api/bookings/cancel
CancelNotFound == [success |-> FALSE, error |-> "Booking not found or already cancelled"]

\* findOne has come back: 404, the 6-hour rule for clients, or call deleteOne
CancelCheck(r) ==
  /\ pc[r] = "found"
  /\ IF loc[r].booking = NoBooking
     THEN Reply(r, 404) /\ Forget(r) /\ data' = [data EXCEPT ![r] = CancelNotFound]
     ELSE IF ~isOwnerCancel(req[r]) /\ TooLate(loc[r].booking)
          THEN Reply(r, 400) /\ Forget(r) /\ UNCHANGED data
          ELSE pc' = [pc EXCEPT ![r] = "delete"] /\ UNCHANGED <<resp, loc, data>>
  /\ UNCHANGED <<clock, bookings, config, req, sent, db, clients, settled, hits>>

\* deleteOne({id}) runs in the database: one document with that id goes, if any
CancelDelete(r) ==
  /\ pc[r] = "delete"
  /\ IF IdMatches(req[r].id) = {}
     THEN UNCHANGED bookings
     ELSE \E b \in IdMatches(req[r].id) : bookings' = bookings \ {b}
  /\ pc' = [pc EXCEPT ![r] = "deleted"]
  /\ UNCHANGED <<clock, config, req, loc, resp, sent, data, db, clients, settled, hits>>

\* the client always gets the neutral notice
ClientCancelMailsNeutral(r) ==
  IF loc[r].booking.email # ""
  THEN {Mail(r, "sendCancellationEmail", loc[r].booking.email)}
  ELSE {}

\* the e-mail to the client: apologetic when the owner cancels
ClientCancelMails(r) ==
  IF loc[r].booking.email # ""
  THEN {Mail(r, IF isOwnerCancel(req[r]) THEN "sendOwnerCancelledClientEmail"
                ELSE "sendCancellationEmail", loc[r].booking.email)}
  ELSE {}

\* the owner is told of every cancellation
OwnerCancelMailsAlways(r) ==
  {Mail(r, "sendOwnerCancellationNotification", loc[r].booking.clinicEmail)}

\* the e-mail to the owner, only if the client cancels
OwnerCancelMails(r) ==
  IF ~isOwnerCancel(req[r])
  THEN {Mail(r, "sendOwnerCancellationNotification", loc[r].booking.clinicEmail)}
  ELSE {}

\* the e-mails dispatched after the delete
CancelMails(r) == ClientCancelMails(r) \cup OwnerCancelMails(r)

\* the delete has come back: dispatch the e-mails, answer 200
CancelRespond(r) ==
  /\ pc[r] = "deleted"
  /\ sent' = sent \cup CancelMails(r)
  /\ Reply(r, 200)
  /\ Forget(r)
  /\ UNCHANGED <<clock, bookings, config, req, data, db, clients, settled, hits>>

\* a handler without a catch: the rejection leaves the request unanswered
CancelFailsUnanswered(r, call) ==
  /\ req[r].kind = "cancel"
  /\ call \in PendingCalls(r)
  /\ pc' = [pc EXCEPT ![r] = "rejected"]
  /\ Forget(r)
  /\ UNCHANGED <<clock, bookings, config, req, resp, sent, data, db, clients, settled, hits>>

\* an awaited call of the handler rejects: the catch answers 500
CancelFails(r, call) ==
  /\ req[r].kind = "cancel"
  /\ call \in PendingCalls(r)
  /\ Reply(r, 500)
  /\ data' = [data EXCEPT ![r] = [success |-> FALSE, error |-> call]]
  /\ Forget(r)
  /\ UNCHANGED <<clock, bookings, config, req, sent, db, clients, settled, hits>>

----------------------------------------------------------------------------
(* GET /api/bookings/details *)

DetailsBody(id, token) == [kind |-> "details", id |-> id, token |-> token]

\* the request arrives: `!token || !id`, then `await connectDB()`
DetailsValidate(r, body) ==
  /\ Arrives(r, body)
  /\ IF body.token = Missing \/ body.id = 0
     THEN Reply(r, 400)
     ELSE pc' = [pc EXCEPT ![r] = "look"] /\ UNCHANGED resp
  /\ UNCHANGED <<clock, bookings, config, loc, sent, data, db, clients, settled, hits>>

\* findOne runs in the database: a matching document, or null
DetailsFind(r) ==
  /\ pc[r] = "look"
  /\ \E b \in IF FindMatches(req[r].id, req[r].token) = {} THEN {NoBooking}
              ELSE FindMatches(req[r].id, req[r].token) :
        loc' = [loc EXCEPT ![r].booking = b]
  /\ pc' = [pc EXCEPT ![r] = "looked"]
  /\ UNCHANGED <<clock, bookings, config, req, resp, sent, data, db, clients, settled, hits>>

\* hoursUntilBooking >= 6
canCancel(b) == AtLeast(msUntilBooking(b), WindowHours * MsPerHour)

\* Math.round(hoursUntilBooking * 10) / 10, in tenths of an hour
RoundedTenths(ms) ==
  IF ms.t = "number" THEN JsNum((2 * ms.v + MsPerHour \div 10) \div (2 * (MsPerHour \div 10)))
  ELSE JsNaN

\* the data of the 200 response
DetailsData(b) ==
  [booking |-> [id |-> b.id, date |-> b.date, time |-> b.time, email |-> b.email],
   canCancel |-> canCancel(b),
   hoursUntilBooking |-> RoundedTenths(msUntilBooking(b))]

\* the data of the 404 response of GET /api/bookings/details
DetailsNotFound == [success |-> FALSE, error |-> "Booking not found or already cancelled"]

\* findOne has come back: 404, or the summary with canCancel
DetailsRespond(r) ==
  /\ pc[r] = "looked"
  /\ IF loc[r].booking = NoBooking
     THEN Reply(r, 404) /\ data' = [data EXCEPT ![r] = DetailsNotFound]
     ELSE Reply(r, 200) /\ data' = [data EXCEPT ![r] = DetailsData(loc[r].booking)]
  /\ Forget(r)
  /\ UNCHANGED <<clock, bookings, config, req, sent, db, clients, settled, hits>>

----------------------------------------------------------------------------
(* The five senders.  Each is an async function the handlers call without
   await: it returns false at once when there is nobody to send to, and else
   awaits fetch inside try/catch and returns true or false. *)

\* how a sender can end: response.ok, an error response of the mail API, an
\* exception of fetch caught by the sender, or nothing to send
Outcomes(m) == IF m.to = "" THEN {"skipped"} ELSE {"delivered", "refused", "threw"}

Completed(m) == \E o \in settled : o.by = m.by /\ o.mail = m.mail

\* the sender rethrows and the handler's catch answers 500
SinkSettlePropagating(m, o) ==
  /\ m \in sent /\ ~Completed(m)
  /\ settled' = settled \cup {[by |-> m.by, mail |-> m.mail, outcome |-> o]}
  /\ resp' = [resp EXCEPT ![m.by] = IF o \in {"refused", "threw"} THEN 500 ELSE @]
  /\ UNCHANGED <<clock, bookings, config, pc, req, loc, sent, data, db, clients, hits>>

\* the promise of a sender completes; nobody looks at its value
SinkSettle(m, o) ==
  /\ m \in sent /\ ~Completed(m)
  /\ settled' = settled \cup {[by |-> m.by, mail |-> m.mail, outcome |-> o]}
  /\ UNCHANGED <<clock, bookings, config, pc, req, loc, resp, sent, data, db, clients, hits>>

----------------------------------------------------------------------------
(* DELETE /api/bookings/:id *)

\* the request arrives: `await connectDB()`
DeleteConnect(r, body) ==
  /\ Arrives(r, body)
  /\ pc' = [pc EXCEPT ![r] = "remove"]
  /\ UNCHANGED <<clock, bookings, config, loc, resp, sent, data, db, clients, settled, hits>>

\* deleteOne({id}) runs in the database: one document with that id goes, if any
DeleteOne(r) ==
  /\ pc[r] = "remove"
  /\ IF IdMatches(req[r].id) = {}
     THEN pc' = [pc EXCEPT ![r] = "removed0"] /\ UNCHANGED bookings
     ELSE /\ \E b \in IdMatches(req[r].id) : bookings' = bookings \ {b}
          /\ pc' = [pc EXCEPT ![r] = "removed1"]
  /\ UNCHANGED <<clock, config, req, loc, resp, sent, data, db, clients, settled, hits>>

\* the delete has come back: 404 when deletedCount is 0, else 200
DeleteRespond(r) ==
  /\ pc[r] \in {"removed0", "removed1"}
  /\ Reply(r, IF pc[r] = "removed0" THEN 404 ELSE 200)
  /\ UNCHANGED <<clock, bookings, config, req, loc, sent, data, db, clients, settled, hits>>

----------------------------------------------------------------------------
(* POST /api/config *)

DigitOf ==
  [c \in {"0", "1", "2", "3", "4", "5", "6", "7", "8", "9"} |->
     CASE c = "0" -> 0 [] c = "1" -> 1 [] c = "2" -> 2 [] c = "3" -> 3 [] c = "4" -> 4
       [] c = "5" -> 5 [] c = "6" -> 6 [] c = "7" -> 7 [] c = "8" -> 8 [] c = "9" -> 9]

\* the number of the digits of cs from position i up to the first non-digit
RECURSIVE ParseDigits(_, _, _)
ParseDigits(cs, i, acc) ==
  IF i > Len(cs) \/ cs[i] \notin DOMAIN DigitOf THEN acc
  ELSE ParseDigits(cs, i + 1, acc * 10 + DigitOf[cs[i]])

\* parseInt of a string: an optional sign, then the leading digits; NaN without any
ParseIntStr(cs) ==
  LET signed == Len(cs) > 0 /\ cs[1] \in {"-", "+"}
      first == IF signed THEN 2 ELSE 1
  IN IF first > Len(cs) \/ cs[first] \notin DOMAIN DigitOf THEN JsNaN
     ELSE JsNum((IF signed /\ cs[1] = "-" THEN -1 ELSE 1) * ParseDigits(cs, first, 0))

\* parseInt(slotsPerHour): the integer itself, the parse of a string, NaN for undefined
parseInt(x) ==
  IF x.t = "number" THEN x
  ELSE IF x.t = "string" THEN ParseIntStr(x.s)
  ELSE JsNaN

\* the request arrives: `await connectDB()`
ConfigConnect(r, body) ==
  /\ Arrives(r, body)
  /\ pc' = [pc EXCEPT ![r] = "upsert"]
  /\ UNCHANGED <<clock, bookings, config, loc, resp, sent, data, db, clients, settled, hits>>

\* updateOne({_id: 'settings'}, {$set: config}, {upsert: true}) runs in the database
ConfigUpsert(r) ==
  /\ pc[r] = "upsert"
  /\ config' = <<OrElse(parseInt(req[r].slotsPerHour), 1)>>
  /\ pc' = [pc EXCEPT ![r] = "upserted"]
  /\ UNCHANGED <<clock, bookings, req, loc, resp, sent, data, db, clients, settled, hits>>

\* the upsert has come back: answer 200
ConfigRespond(r) ==
  /\ pc[r] = "upserted"
  /\ Reply(r, 200)
  /\ UNCHANGED <<clock, bookings, config, req, loc, sent, data, db, clients, settled, hits>>

\* an awaited call of the handler rejects: the catch answers 500
ConfigFails(r, call) ==
  /\ req[r].kind = "setConfig"
  /\ call \in PendingCalls(r)
  /\ Reply(r, 500)
  /\ data' = [data EXCEPT ![r] = [success |-> FALSE, error |-> call]]
  /\ Forget(r)
  /\ UNCHANGED <<clock, bookings, config, req, sent, db, clients, settled, hits>>

----------------------------------------------------------------------------
(* GET /api/config *)

GetConfigBody == [kind |-> "getConfig"]

\* the test with its outcome fixed: always `!config`
ConfigAbsentAlways(c) == TRUE

\* !config
ConfigAbsent(c) == c = NoConfig

\* the request arrives: `await connectDB()`
GetConfigConnect(r, body) ==
  /\ Arrives(r, body)
  /\ pc' = [pc EXCEPT ![r] = "cfgFind"]
  /\ UNCHANGED <<clock, bookings, config, loc, resp, sent, data, db, clients, settled, hits>>

\* findOne({_id: 'settings'}) runs in the database
GetConfigFind(r) ==
  /\ pc[r] = "cfgFind"
  /\ loc' = [loc EXCEPT ![r].config = config]
  /\ pc' = [pc EXCEPT ![r] = "cfgFound"]
  /\ UNCHANGED <<clock, bookings, config, req, resp, sent, data, db, clients, settled, hits>>

\* findOne has come back: answer the stored config, or take {slotsPerHour: 1}
\* and call insertOne
GetConfigCheck(r) ==
  /\ pc[r] = "cfgFound"
  /\ IF ConfigAbsent(loc[r].config)
     THEN /\ loc' = [loc EXCEPT ![r].config = <<DefaultSlots>>]
          /\ pc' = [pc EXCEPT ![r] = "cfgInsert"]
          /\ UNCHANGED <<resp, data>>
     ELSE /\ Reply(r, 200)
          /\ data' = [data EXCEPT ![r] = loc[r].config]
          /\ Forget(r)
  /\ UNCHANGED <<clock, bookings, config, req, sent, db, clients, settled, hits>>

\* insertOne({_id: 'settings', ...config}) runs in the database: a duplicate
\* _id is an error, which the handler's catch answers with 500
GetConfigInsert(r) ==
  /\ pc[r] = "cfgInsert"
  /\ IF config = NoConfig
     THEN /\ config' = loc[r].config
          /\ pc' = [pc EXCEPT ![r] = "cfgInserted"]
          /\ UNCHANGED <<resp, loc>>
     ELSE /\ Reply(r, 500)
          /\ Forget(r)
          /\ UNCHANGED config
  /\ UNCHANGED <<clock, bookings, req, sent, data, db, clients, settled, hits>>

\* the insert has come back: answer the default config
GetConfigRespond(r) ==
  /\ pc[r] = "cfgInserted"
  /\ Reply(r, 200)
  /\ data' = [data EXCEPT ![r] = loc[r].config]
  /\ Forget(r)
  /\ UNCHANGED <<clock, bookings, config, req, sent, db, clients, settled, hits>>

\* an awaited call of the handler rejects for another reason than a
\* duplicate _id: the catch answers 500
GetConfigFails(r, call) ==
  /\ req[r].kind = "getConfig"
  /\ call \in PendingCalls(r)
  /\ Reply(r, 500)
  /\ data' = [data EXCEPT ![r] = [success |-> FALSE, error |-> call]]
  /\ Forget(r)
  /\ UNCHANGED <<clock, bookings, config, req, sent, db, clients, settled, hits>>

----------------------------------------------------------------------------
(* GET /api/config/slots *)

SlotsBody == [kind |-> "slots"]

\* the request arrives: `await connectDB()`
SlotsConnect(r, body) ==
  /\ Arrives(r, body)
  /\ pc' = [pc EXCEPT ![r] = "slotsFind"]
  /\ UNCHANGED <<clock, bookings, config, loc, resp, sent, data, db, clients, settled, hits>>

\* the alias as a copy of GET /api/config: the default is stored when no
\* record is found
SlotsFindInserting(r) ==
  /\ pc[r] = "slotsFind"
  /\ loc' = [loc EXCEPT ![r].config = config]
  /\ config' = IF config = NoConfig THEN <<DefaultSlots>> ELSE config
  /\ pc' = [pc EXCEPT ![r] = "slotsFound"]
  /\ UNCHANGED <<clock, bookings, req, resp, sent, data, db, clients, settled, hits>>

\* findOne({_id: 'settings'}) runs in the database
SlotsFind(r) ==
  /\ pc[r] = "slotsFind"
  /\ loc' = [loc EXCEPT ![r].config = config]
  /\ pc' = [pc EXCEPT ![r] = "slotsFound"]
  /\ UNCHANGED <<clock, bookings, config, req, resp, sent, data, db, clients, settled, hits>>

\* findOne has come back: answer config?.slotsPerHour || 1
SlotsRespond(r) ==
  /\ pc[r] = "slotsFound"
  /\ Reply(r, 200)
  /\ data' = [data EXCEPT ![r] =
                [slotsPerHour |-> IF loc[r].config = NoConfig THEN DefaultSlots
                                  ELSE OrElse(JsNum(loc[r].config[1]), DefaultSlots),
                 showAvailability |-> TRUE]]
  /\ Forget(r)
  /\ UNCHANGED <<clock, bookings, config, req, sent, db, clients, settled, hits>>

----------------------------------------------------------------------------
(* connectDB, called by GET /health *)

HealthBody == [kind |-> "health"]

\* the request arrives and calls connectDB: `if (db) return db`, else
\* new MongoClient and `await client.connect()`
ConnectEnter(r, body) ==
  /\ Arrives(r, body)
  /\ IF db # NoDb
     THEN /\ loc' = [loc EXCEPT ![r].database = db]
          /\ pc' = [pc EXCEPT ![r] = "connected"]
          /\ UNCHANGED clients
     ELSE /\ clients' = clients \cup {r}
          /\ pc' = [pc EXCEPT ![r] = "connecting"]
          /\ UNCHANGED loc
  /\ UNCHANGED <<clock, bookings, config, resp, sent, data, db, settled, hits>>

\* connect has come back: db = client.db(DB_NAME), then the first createIndex
ConnectAssign(r) ==
  /\ pc[r] = "connecting"
  /\ db' = Handle(r)
  /\ pc' = [pc EXCEPT ![r] = "index1"]
  /\ UNCHANGED <<clock, bookings, config, req, loc, resp, sent, data, clients, settled, hits>>

\* connect has failed: the catch of connectDB runs `db = null` and throws, and
\* the catch of the handler answers 200 with mongodb 'reconnecting'
ConnectFail(r) ==
  /\ pc[r] = "connecting"
  /\ db' = NoDb
  /\ Reply(r, 200)
  /\ data' = [data EXCEPT ![r] = [status |-> "ok", mongodb |-> "reconnecting"]]
  /\ UNCHANGED <<clock, bookings, config, req, loc, sent, clients, settled, hits>>

\* the first createIndex has come back: the second createIndex
ConnectIndex(r) ==
  /\ pc[r] = "index1"
  /\ pc' = [pc EXCEPT ![r] = "index2"]
  /\ UNCHANGED <<clock, bookings, config, req, loc, resp, sent, data, db, clients, settled, hits>>

\* the second createIndex has come back: `return db`, the module variable
ConnectReturn(r) ==
  /\ pc[r] = "index2"
  /\ loc' = [loc EXCEPT ![r].database = db]
  /\ pc' = [pc EXCEPT ![r] = "connected"]
  /\ UNCHANGED <<clock, bookings, config, req, resp, sent, data, db, clients, settled, hits>>

\* connectDB has returned to the handler: answer 200
HealthRespond(r) ==
  /\ pc[r] = "connected"
  /\ Reply(r, 200)
  /\ UNCHANGED <<clock, bookings, config, req, loc, sent, data, db, clients, settled, hits>>

----------------------------------------------------------------------------
(* GET /api/bookings and GET /api/bookings/all *)

CountsBody == [kind |-> "counts"]

ListBody == [kind |-> "list"]

\* the arrays that hold every element of S exactly once
Orderings(S) ==
  {s \in [1..Cardinality(S) -> S] : \A i, j \in 1..Cardinality(S) : i # j => s[i] # s[j]}

\* the request arrives: `await connectDB()`
CountsConnect(r, body) ==
  /\ Arrives(r, body)
  /\ pc' = [pc EXCEPT ![r] = "counts"]
  /\ UNCHANGED <<clock, bookings, config, loc, resp, sent, data, db, clients, settled, hits>>

\* find({}).toArray() runs in the database: every document, in an order the
\* database chooses
CountsFind(r) ==
  /\ pc[r] = "counts"
  /\ \E docs \in Orderings(bookings) : loc' = [loc EXCEPT ![r].docs = docs]
  /\ pc' = [pc EXCEPT ![r] = "counted"]
  /\ UNCHANGED <<clock, bookings, config, req, resp, sent, data, db, clients, settled, hits>>

\* a key that names the date only
KeyOfDate(b) == <<b.date>>

\* `${booking.date}-${booking.time}`
KeyOf(b) == <<b.date, "-", b.time>>

\* counts[key] = (counts[key] || 0) + 1
CountOne(counts, key) ==
  [k \in DOMAIN counts \cup {key} |->
     IF k = key THEN (IF key \in DOMAIN counts THEN counts[key] ELSE 0) + 1 ELSE counts[k]]

\* bookings.forEach from element i on
RECURSIVE Tally(_, _, _)
Tally(docs, i, counts) ==
  IF i > Len(docs) THEN counts ELSE Tally(docs, i + 1, CountOne(counts, KeyOf(docs[i])))

\* the array has come back: count per key, answer 200
CountsRespond(r) ==
  /\ pc[r] = "counted"
  /\ Reply(r, 200)
  /\ data' = [data EXCEPT ![r] = [success |-> TRUE, bookings |-> Tally(loc[r].docs, 1, <<>>)]]
  /\ Forget(r)
  /\ UNCHANGED <<clock, bookings, config, req, sent, db, clients, settled, hits>>

\* the request arrives: `await connectDB()`
ListConnect(r, body) ==
  /\ Arrives(r, body)
  /\ pc' = [pc EXCEPT ![r] = "list"]
  /\ UNCHANGED <<clock, bookings, config, loc, resp, sent, data, db, clients, settled, hits>>

\* sort({createdAt: 1}): a goes before b
SortsBeforeAscending(a, b) == a.createdAt <= b.createdAt

\* sort({createdAt: -1}): a goes before b; documents of one createdAt go in
\* an order the database chooses
SortsBefore(a, b) == a.createdAt >= b.createdAt

\* find({}).sort({createdAt: -1}).toArray() runs in the database
ListFind(r) ==
  /\ pc[r] = "list"
  /\ \E docs \in Orderings(bookings) :
        /\ \A i, j \in DOMAIN docs : i < j => SortsBefore(docs[i], docs[j])
        /\ loc' = [loc EXCEPT ![r].docs = docs]
  /\ pc' = [pc EXCEPT ![r] = "listed"]
  /\ UNCHANGED <<clock, bookings, config, req, resp, sent, data, db, clients, settled, hits>>

\* the array has come back: answer 200 with the documents as they are
ListRespond(r) ==
  /\ pc[r] = "listed"
  /\ Reply(r, 200)
  /\ data' = [data EXCEPT ![r] = [success |-> TRUE, bookings |-> loc[r].docs]]
  /\ Forget(r)
  /\ UNCHANGED <<clock, bookings, config, req, sent, db, clients, settled, hits>>

----------------------------------------------------------------------------
(* Specifications *)

InitOf(n) ==
  /\ clock = StartClock
  /\ bookings = {}
  /\ config = NoConfig
  /\ pc = [r \in 1..n |-> "idle"]
  /\ req = [r \in 1..n |-> NoReq]
  /\ loc = [r \in 1..n |-> NoLoc]
  /\ resp = [r \in 1..n |-> 0]
  /\ sent = {}
  /\ data = [r \in 1..n |-> NoData]
  /\ db = Handle(Startup)
  /\ clients = {Startup}
  /\ settled = {}
  /\ hits = NoHits

\* a token no booking carries
WrongToken == <<"tok", 0>>

\* the cancel requests aimed at the stored bookings (GET /api/bookings/all
\* shows every stored id and token): the id of each with its token and with a
\* wrong token, from the client and from the owner
CancelBodies ==
  UNION {{CancelBody(b.id, t, o) : t \in {b.cancelToken, WrongToken}, o \in BOOLEAN} :
         b \in bookings}

\* creations for the slot Date1 Time1 of two tenants, without a capacity
CreateBodies ==
  {CreateBody(Date1, Time1, c, "c@x.io", JsUndef) : c \in {"", "a@b.com"}}

ConfigBodies == {ConfigBody(JsNum(2))}

\* slotsPerHour missing, zero, negative, positive, not a number, a numeral
WideConfigBodies ==
  {ConfigBody(x) : x \in {JsUndef, JsNum(0), JsNum(-1), JsNum(2),
                          JsStr(<<"a", "b", "c">>), JsStr(<<"1", "2">>)}}

\* creations with the client's and the tenant's e-mail address, and with neither
MailCreateBodies ==
  {CreateBody(Date1, Time1, "a@b.com", "c@x.io", JsUndef),
   CreateBody(Date1, Time1, "", "", JsUndef)}

\* the cancel requests, and those that lack the token
MailCancelBodies == CancelBodies \cup {CancelBody(b.id, Missing, FALSE) : b \in bookings}

\* creations for a time of day and for a time that is none
TimeCreateBodies ==
  {CreateBody(Date1, t, "", "c@x.io", JsUndef) : t \in {Time1, Time2}}

\* the details requests aimed at the stored bookings, with the token and
\* with a wrong one
DetailsBodies ==
  UNION {{DetailsBody(b.id, t) : t \in {b.cancelToken, WrongToken}} : b \in bookings}

\* the delete requests aimed at the stored bookings
DeleteBodies == {DeleteBody(b.id) : b \in bookings}

\* creations for the slot Date1 Time1 of one tenant, with and without a capacity
SeqCreateBodies ==
  {CreateBody(Date1, Time1, "a@b.com", "c@x.io", s) : s \in {JsUndef, JsNum(2)}}

\* creations with a missing date, a missing time and a time that is no time of
\* day
WideCreateBodies ==
  {CreateBody(d, t, "", "c@x.io", JsUndef) : d \in {Missing, Date1},
                                             t \in {Missing, Time1, Time2}}

Init == InitOf(NumReq)

Next ==
  \/ TickMs
  \/ \E r \in Reqs : \E body \in CreateBodies : CreateValidate(r, body)
  \/ \E r \in Reqs : CreateCount(r)
  \/ \E r \in Reqs : CreateCheck(r)
  \/ \E r \in Reqs : CreateInsert(r)
  \/ \E r \in Reqs : CreateRespond(r)
  \/ \E r \in Reqs : \E body \in CancelBodies : CancelValidate(r, body)
  \/ \E r \in Reqs : CancelFind(r)
  \/ \E r \in Reqs : CancelCheck(r)
  \/ \E r \in Reqs : CancelDelete(r)
  \/ \E r \in Reqs : CancelRespond(r)
  \/ \E r \in Reqs : \E body \in ConfigBodies : ConfigConnect(r, body)
  \/ \E r \in Reqs : ConfigUpsert(r)
  \/ \E r \in Reqs : ConfigRespond(r)
  \/ \E r \in Reqs : \E body \in DeleteBodies : DeleteConnect(r, body)
  \/ \E r \in Reqs : DeleteOne(r)
  \/ \E r \in Reqs : DeleteRespond(r)

\* requests overlap freely
Spec == Init /\ [][Next]_vars

NoneInFlight == \A q \in Reqs : ~InFlight(q)

InitSeq == InitOf(NumSeq)

NextSeq ==
  \/ TickMs
  \/ \E r \in Reqs : \E body \in SeqCreateBodies : NoneInFlight /\ CreateValidate(r, body)
  \/ \E r \in Reqs : CreateCount(r)
  \/ \E r \in Reqs : CreateCheck(r)
  \/ \E r \in Reqs : CreateInsert(r)
  \/ \E r \in Reqs : CreateRespond(r)
  \/ \E r \in Reqs : \E body \in CancelBodies : NoneInFlight /\ CancelValidate(r, body)
  \/ \E r \in Reqs : CancelFind(r)
  \/ \E r \in Reqs : CancelCheck(r)
  \/ \E r \in Reqs : CancelDelete(r)
  \/ \E r \in Reqs : CancelRespond(r)

\* a request arrives only when every earlier one has been answered
SpecSeq == InitSeq /\ [][NextSeq]_vars

InitInputs == InitOf(NumIn)

NextInputs ==
  \/ TickMs
  \/ TickHour
  \/ \E r \in Reqs : \E body \in WideCreateBodies : CreateValidate(r, body)
  \/ \E r \in Reqs : CreateCount(r)
  \/ \E r \in Reqs : CreateCheck(r)
  \/ \E r \in Reqs : CreateInsert(r)
  \/ \E r \in Reqs : CreateRespond(r)
  \/ \E r \in Reqs : \E body \in CancelBodies : CancelValidate(r, body)
  \/ \E r \in Reqs : CancelFind(r)
  \/ \E r \in Reqs : CancelCheck(r)
  \/ \E r \in Reqs : CancelDelete(r)
  \/ \E r \in Reqs : CancelRespond(r)

\* overlapping requests with a wide choice of creations, while hours pass
SpecInputs == InitInputs /\ [][NextInputs]_vars

InitTenants == InitOf(NumTen)

NextTenants ==
  \/ \E r \in Reqs : \E body \in CreateBodies : CreateValidate(r, body)
  \/ \E r \in Reqs : CreateCount(r)
  \/ \E r \in Reqs : CreateCheck(r)
  \/ \E r \in Reqs : CreateInsert(r)
  \/ \E r \in Reqs : CreateRespond(r)
  \/ \E r \in Reqs : \E body \in DeleteBodies : DeleteConnect(r, body)
  \/ \E r \in Reqs : DeleteOne(r)
  \/ \E r \in Reqs : DeleteRespond(r)

\* overlapping creations of two tenants for one date and time, and deletions
SpecTenants == InitTenants /\ [][NextTenants]_vars

InitMail == InitOf(NumMail)

\* the steps of the handler of request r after its arrival
HandlerStep(r) ==
  \/ CreateCount(r) \/ CreateCheck(r) \/ CreateInsert(r) \/ CreateRespond(r)
  \/ CancelFind(r) \/ CancelCheck(r) \/ CancelDelete(r) \/ CancelRespond(r)

NextMail ==
  \/ TickMs
  \/ \E r \in Reqs : \E body \in MailCreateBodies : CreateValidate(r, body)
  \/ \E r \in Reqs : CreateCount(r)
  \/ \E r \in Reqs : CreateCheck(r)
  \/ \E r \in Reqs : CreateInsert(r)
  \/ \E r \in Reqs : CreateRespond(r)
  \/ \E r \in Reqs : \E body \in MailCancelBodies : CancelValidate(r, body)
  \/ \E r \in Reqs : CancelFind(r)
  \/ \E r \in Reqs : CancelCheck(r)
  \/ \E r \in Reqs : CancelDelete(r)
  \/ \E r \in Reqs : CancelRespond(r)
  \/ \E m \in sent : \E o \in Outcomes(m) : SinkSettle(m, o)

\* creations and cancellations while the senders complete in any way, or never
SpecMail == InitMail /\ [][NextMail]_vars

InitFair == InitOf(NumFair)

\* the cancel requests that present the token of a stored booking
TokenCancelBodies == {CancelBody(b.id, b.cancelToken, o) : b \in bookings, o \in BOOLEAN}

NextFair ==
  \/ \E r \in Reqs : CreateValidate(r, CreateBody(Date1, Time1, "a@b.com", "c@x.io", JsUndef))
  \/ \E r \in Reqs : CreateCount(r)
  \/ \E r \in Reqs : CreateCheck(r)
  \/ \E r \in Reqs : CreateInsert(r)
  \/ \E r \in Reqs : CreateRespond(r)
  \/ \E r \in Reqs : \E body \in TokenCancelBodies : CancelValidate(r, body)
  \/ \E r \in Reqs : CancelFind(r)
  \/ \E r \in Reqs : CancelCheck(r)
  \/ \E r \in Reqs : CancelDelete(r)
  \/ \E r \in Reqs : CancelRespond(r)
  \/ \E m \in sent : \E o \in Outcomes(m) : SinkSettle(m, o)

\* creations and cancellations where the database answers every call and every
\* continuation of a handler runs; nothing is assumed of the senders
SpecFair == InitFair /\ [][NextFair]_vars /\ \A r \in 1..NumFair : WF_vars(HandlerStep(r))

\* the server has just started: no connection yet
InitConnect ==
  /\ clock = StartClock
  /\ bookings = {}
  /\ config = NoConfig
  /\ pc = [r \in 1..NumConn |-> "idle"]
  /\ req = [r \in 1..NumConn |-> NoReq]
  /\ loc = [r \in 1..NumConn |-> NoLoc]
  /\ resp = [r \in 1..NumConn |-> 0]
  /\ sent = {}
  /\ data = [r \in 1..NumConn |-> NoData]
  /\ db = NoDb
  /\ clients = {}
  /\ settled = {}
  /\ hits = NoHits

NextConnect ==
  \/ \E r \in Reqs : ConnectEnter(r, HealthBody)
  \/ \E r \in Reqs : ConnectAssign(r)
  \/ \E r \in Reqs : ConnectFail(r)
  \/ \E r \in Reqs : ConnectIndex(r)
  \/ \E r \in Reqs : ConnectReturn(r)
  \/ \E r \in Reqs : HealthRespond(r)

\* overlapping first calls of connectDB, each of which may fail to connect
SpecConnect == InitConnect /\ [][NextConnect]_vars

InitDetails == InitOf(NumDet)

NextDetails ==
  \/ TickMs
  \/ TickHour
  \/ \E r \in Reqs : \E body \in TimeCreateBodies : CreateValidate(r, body)
  \/ \E r \in Reqs : CreateCount(r)
  \/ \E r \in Reqs : CreateCheck(r)
  \/ \E r \in Reqs : CreateInsert(r)
  \/ \E r \in Reqs : CreateRespond(r)
  \/ \E r \in Reqs : \E body \in DetailsBodies : DetailsValidate(r, body)
  \/ \E r \in Reqs : DetailsFind(r)
  \/ \E r \in Reqs : DetailsRespond(r)

\* creations and looks at the cancel page while time passes
SpecDetails == InitDetails /\ [][NextDetails]_vars

InitConfig == InitOf(NumCfg)

NextConfig ==
  \/ \E r \in Reqs : NoneInFlight /\ GetConfigConnect(r, GetConfigBody)
  \/ \E r \in Reqs : GetConfigFind(r)
  \/ \E r \in Reqs : GetConfigCheck(r)
  \/ \E r \in Reqs : GetConfigInsert(r)
  \/ \E r \in Reqs : GetConfigRespond(r)
  \/ \E r \in Reqs : \E body \in WideConfigBodies : NoneInFlight /\ ConfigConnect(r, body)
  \/ \E r \in Reqs : ConfigUpsert(r)
  \/ \E r \in Reqs : ConfigRespond(r)

\* reads and writes of the configuration, one request at a time
SpecConfig == InitConfig /\ [][NextConfig]_vars

\* the capacities c with c + 5 <= NumStorm
StormCapacities == {JsUndef} \cup {JsNum(c) : c \in 1..(NumStorm - 5)}

\* NumStorm creations for one empty slot, all with the same capacity, have all
\* arrived and passed validation; none has reached the database yet
InitStorm ==
  /\ clock = StartClock
  /\ bookings = {}
  /\ config = NoConfig
  /\ pc = [r \in 1..NumStorm |-> "count"]
  /\ \E s \in StormCapacities :
        req = [r \in 1..NumStorm |-> CreateBody(Date1, Time1, "a@b.com", "c@x.io", s)]
  /\ loc = [r \in 1..NumStorm |-> NoLoc]
  /\ resp = [r \in 1..NumStorm |-> 0]
  /\ sent = {}
  /\ data = [r \in 1..NumStorm |-> NoData]
  /\ db = Handle(Startup)
  /\ clients = {Startup}
  /\ settled = {}
  /\ hits = NoHits

NextStorm ==
  \/ \E r \in Reqs : CreateCount(r)
  \/ \E r \in Reqs : CreateCheck(r)
  \/ \E r \in Reqs : CreateInsert(r)
  \/ \E r \in Reqs : CreateRespond(r)

SpecStorm == InitStorm /\ [][NextStorm]_vars

\* the creations that were answered 200
Created == {q \in Reqs : req[q].kind = "create" /\ pc[q] = "done" /\ resp[q] = 200}

\* an id no booking was ever given
UnknownId == StartClock - 1

\* the ids and tokens a caller can try: those of the bookings that were
\* confirmed, stored or removed since, an id that never existed, a wrong token
TriedIds == {data[q].bookingId : q \in Created} \cup {UnknownId}
TriedTokens == {generateCancelToken(q) : q \in Created} \cup {WrongToken}

MissCancelBodies == {CancelBody(i, t, TRUE) : i \in TriedIds, t \in TriedTokens}

MissDetailsBodies == {DetailsBody(i, t) : i \in TriedIds, t \in TriedTokens}

InitMiss == InitOf(NumMiss)

NextMiss ==
  \/ \E r \in Reqs : NoneInFlight
                       /\ CreateValidate(r, CreateBody(Date1, Time1, "", "c@x.io", JsUndef))
  \/ \E r \in Reqs : CreateCount(r)
  \/ \E r \in Reqs : CreateCheck(r)
  \/ \E r \in Reqs : CreateInsert(r)
  \/ \E r \in Reqs : CreateRespond(r)
  \/ \E r \in Reqs : \E body \in MissCancelBodies : NoneInFlight /\ CancelValidate(r, body)
  \/ \E r \in Reqs : CancelFind(r)
  \/ \E r \in Reqs : CancelCheck(r)
  \/ \E r \in Reqs : CancelDelete(r)
  \/ \E r \in Reqs : CancelRespond(r)
  \/ \E r \in Reqs : \E body \in MissDetailsBodies : NoneInFlight /\ DetailsValidate(r, body)
  \/ \E r \in Reqs : DetailsFind(r)
  \/ \E r \in Reqs : DetailsRespond(r)

\* creations, cancellations and looks at the cancel page, one request at a time,
\* with ids and tokens that match a stored booking and that match none
SpecMiss == InitMiss /\ [][NextMiss]_vars

\* documents the collection may hold when the server starts, written before
\* with the two statuses that the filter of countDocuments names
LeftBehind ==
  {[_id |-> 0 - n, id |-> StartClock - 1 - n, date |-> Date1, time |-> Time1,
    email |-> "c@x.io", cancelToken |-> <<"tok", 0 - n>>,
    status |-> IF n = 1 THEN "cancelled" ELSE "no-show", clinicEmail |-> "a@b.com",
    createdAt |-> StartClock - 1 - n] : n \in 1..2}

\* creations of two tenants for one time, and of one of them for another time
ListCreateBodies ==
  {CreateBody(Date1, Time1, c, "c@x.io", JsUndef) : c \in {"", "a@b.com"}}
    \cup {CreateBody(Date1, Time2, "", "c@x.io", JsUndef)}

\* the owner's cancel requests for the stored bookings
ListCancelBodies == {CancelBody(b.id, b.cancelToken, TRUE) : b \in bookings}

InitList ==
  /\ clock = StartClock
  /\ bookings \in {{}, LeftBehind}
  /\ config = NoConfig
  /\ pc = [r \in 1..NumList |-> "idle"]
  /\ req = [r \in 1..NumList |-> NoReq]
  /\ loc = [r \in 1..NumList |-> NoLoc]
  /\ resp = [r \in 1..NumList |-> 0]
  /\ sent = {}
  /\ data = [r \in 1..NumList |-> NoData]
  /\ db = Handle(Startup)
  /\ clients = {Startup}
  /\ settled = {}
  /\ hits = NoHits

NextList ==
  \/ TickMs
  \/ \E r \in Reqs : \E body \in ListCreateBodies : NoneInFlight /\ CreateValidate(r, body)
  \/ \E r \in Reqs : CreateCount(r)
  \/ \E r \in Reqs : CreateCheck(r)
  \/ \E r \in Reqs : CreateInsert(r)
  \/ \E r \in Reqs : CreateRespond(r)
  \/ \E r \in Reqs : \E body \in ListCancelBodies : NoneInFlight /\ CancelValidate(r, body)
  \/ \E r \in Reqs : CancelFind(r)
  \/ \E r \in Reqs : CancelCheck(r)
  \/ \E r \in Reqs : CancelDelete(r)
  \/ \E r \in Reqs : CancelRespond(r)
  \/ \E r \in Reqs : NoneInFlight /\ CountsConnect(r, CountsBody)
  \/ \E r \in Reqs : CountsFind(r)
  \/ \E r \in Reqs : CountsRespond(r)
  \/ \E r \in Reqs : NoneInFlight /\ ListConnect(r, ListBody)
  \/ \E r \in Reqs : ListFind(r)
  \/ \E r \in Reqs : ListRespond(r)

\* creations, cancellations and the two listings, one request at a time, on a
\* collection that may hold cancelled and no-show documents
SpecList == InitList /\ [][NextList]_vars

\* dates, times and addresses that the formats do not admit: "2026-01-200",
\* "2026-01", "09:100", "09", and addresses without @, without a dot after
\* the @, with a blank, with nothing before the @
BadDates == {<<2026, 1, 200>>, <<2026, 1>>}
BadTimes == {<<9, 100>>, <<9>>}
BadEmails == {"nope", "a@b", "a b@x.io", "@x.io"}

\* well-formed creations for one slot with and without the two addresses, and
\* creations with one malformed field
FormCreateBodies ==
  {CreateBody(Date1, Time1, c, e, JsUndef) : c \in {"", "a@b.com"}, e \in {"", "c@x.io"}}
    \cup {CreateBody(d, Time1, "a@b.com", "c@x.io", JsUndef) : d \in BadDates}
    \cup {CreateBody(Date1, t, "a@b.com", "c@x.io", JsUndef) : t \in BadTimes}
    \cup {CreateBody(Date1, Time1, "a@b.com", e, JsUndef) : e \in BadEmails}

InitForm == InitOf(NumForm)

NextForm ==
  \/ \E r \in Reqs : \E body \in FormCreateBodies : NoneInFlight /\ CreateValidate(r, body)
  \/ \E r \in Reqs : CreateCount(r)
  \/ \E r \in Reqs : CreateCheck(r)
  \/ \E r \in Reqs : CreateInsert(r)
  \/ \E r \in Reqs : CreateRespond(r)
  \/ \E r \in Reqs : \E body \in ConfigBodies : ConfigConnect(r, body)
  \/ \E r \in Reqs : ConfigUpsert(r)
  \/ \E r \in Reqs : ConfigRespond(r)

\* creations, well-formed and malformed, that arrive when no request is in
\* flight, and writes of the configuration that arrive at any time
SpecForm == InitForm /\ [][NextForm]_vars

\* creations of one client IP for one slot of capacity 2
LimitCreateBodies == {CreateBody(Date1, Time1, "a@b.com", "c@x.io", JsNum(2))}

InitLimit == InitOf(NumLimit)

NextLimit ==
  \/ TickHalf
  \/ \E r \in Reqs : \E body \in LimitCreateBodies : NoneInFlight /\ LimitedCreate(r, body)
  \/ \E r \in Reqs : CreateCount(r)
  \/ \E r \in Reqs : CreateCheck(r)
  \/ \E r \in Reqs : CreateInsert(r)
  \/ \E r \in Reqs : CreateRespond(r)

\* creations of one client IP, one at a time, while the clock advances by
\* half windows of the limiter
SpecLimit == InitLimit /\ [][NextLimit]_vars

InitWin == InitOf(NumWin)

NextWin ==
  \/ TickMs
  \/ \E r \in Reqs : NoneInFlight
                       /\ CreateValidate(r, CreateBody(Date1, Time1, "", "c@x.io", JsUndef))
  \/ \E r \in Reqs : CreateCount(r)
  \/ \E r \in Reqs : CreateCheck(r)
  \/ \E r \in Reqs : CreateInsert(r)
  \/ \E r \in Reqs : CreateRespond(r)
  \/ \E r \in Reqs : \E body \in TokenCancelBodies : CancelValidate(r, body)
  \/ \E r \in Reqs : CancelFind(r)
  \/ \E r \in Reqs : CancelCheck(r)
  \/ \E r \in Reqs : CancelDelete(r)
  \/ \E r \in Reqs : CancelRespond(r)

\* creations for an appointment exactly 6 hours after the start, and
\* overlapping cancellations by the client and by the owner, while the clock
\* advances
SpecWin == InitWin /\ [][NextWin]_vars

InitRace == InitOf(NumRace)

NextRace ==
  \/ \E r \in Reqs : GetConfigConnect(r, GetConfigBody)
  \/ \E r \in Reqs : GetConfigFind(r)
  \/ \E r \in Reqs : GetConfigCheck(r)
  \/ \E r \in Reqs : GetConfigInsert(r)
  \/ \E r \in Reqs : GetConfigRespond(r)
  \/ \E r \in Reqs : \E body \in ConfigBodies : ConfigConnect(r, body)
  \/ \E r \in Reqs : ConfigUpsert(r)
  \/ \E r \in Reqs : ConfigRespond(r)

\* overlapping reads and writes of the configuration on a store without a
\* config record
SpecRace == InitRace /\ [][NextRace]_vars

\* creations for one slot without a capacity and with the capacities 0, -1
\* and 2
CapCreateBodies ==
  {CreateBody(Date1, Time1, "a@b.com", "c@x.io", c) :
     c \in {JsUndef, JsNum(0), JsNum(0 - 1), JsNum(2)}}

InitCap == InitOf(NumCap)

NextCap ==
  \/ \E r \in Reqs : \E body \in CapCreateBodies : CreateValidate(r, body)
  \/ \E r \in Reqs : CreateCount(r)
  \/ \E r \in Reqs : CreateCheck(r)
  \/ \E r \in Reqs : CreateInsert(r)
  \/ \E r \in Reqs : CreateRespond(r)

\* overlapping creations for one slot with capacities of their own
SpecCap == InitCap /\ [][NextCap]_vars

InitFrame == InitOf(NumFrame)

NextFrame ==
  \/ \E r \in Reqs : CreateValidate(r, CreateBody(Date1, Time1, "", "c@x.io", JsUndef))
  \/ \E r \in Reqs : CreateCount(r)
  \/ \E r \in Reqs : CreateCheck(r)
  \/ \E r \in Reqs : CreateInsert(r)
  \/ \E r \in Reqs : CreateRespond(r)
  \/ \E r \in Reqs : GetConfigConnect(r, GetConfigBody)
  \/ \E r \in Reqs : GetConfigFind(r)
  \/ \E r \in Reqs : GetConfigCheck(r)
  \/ \E r \in Reqs : GetConfigInsert(r)
  \/ \E r \in Reqs : GetConfigRespond(r)
  \/ \E r \in Reqs : \E body \in ConfigBodies : ConfigConnect(r, body)
  \/ \E r \in Reqs : ConfigUpsert(r)
  \/ \E r \in Reqs : ConfigRespond(r)
  \/ \E r \in Reqs : SlotsConnect(r, SlotsBody)
  \/ \E r \in Reqs : SlotsFind(r)
  \/ \E r \in Reqs : SlotsRespond(r)
  \/ \E r \in Reqs : CountsConnect(r, CountsBody)
  \/ \E r \in Reqs : CountsFind(r)
  \/ \E r \in Reqs : CountsRespond(r)
  \/ \E r \in Reqs : ListConnect(r, ListBody)
  \/ \E r \in Reqs : ListFind(r)
  \/ \E r \in Reqs : ListRespond(r)
  \/ \E r \in Reqs : \E body \in DetailsBodies : DetailsValidate(r, body)
  \/ \E r \in Reqs : DetailsFind(r)
  \/ \E r \in Reqs : DetailsRespond(r)

\* overlapping creations and operations that read
SpecFrame == InitFrame /\ [][NextFrame]_vars

InitFail == InitOf(NumFail)

NextFail ==
  \/ \E r \in Reqs : \E body \in MailCreateBodies : CreateValidate(r, body)
  \/ \E r \in Reqs : CreateCount(r)
  \/ \E r \in Reqs : CreateCheck(r)
  \/ \E r \in Reqs : CreateInsert(r)
  \/ \E r \in Reqs : CreateRespond(r)
  \/ \E r \in Reqs : \E call \in PendingCalls(r) : CreateFails(r, call)

\* overlapping creations whose calls on the database may fail
SpecFail == InitFail /\ [][NextFail]_vars

InitTerm == InitOf(NumTerm)

\* creations of one slot, one of them malformed
TermCreateBodies ==
  {CreateBody(Date1, Time1, "a@b.com", "c@x.io", JsUndef),
   CreateBody(Date1, Missing, "a@b.com", "c@x.io", JsUndef)}

\* cancel requests with the token of a stored booking, with a wrong one and
\* with none
TermCancelBodies ==
  TokenCancelBodies \cup {CancelBody(StartClock, WrongToken, FALSE),
                          CancelBody(StartClock, Missing, FALSE)}

\* a continuation of the handler of request r, its awaited call having
\* returned or failed
TermStep(r) ==
  \/ CreateCount(r) \/ CreateCheck(r) \/ CreateInsert(r) \/ CreateRespond(r)
  \/ \E call \in PendingCalls(r) : CreateFails(r, call)
  \/ CancelFind(r) \/ CancelCheck(r) \/ CancelDelete(r) \/ CancelRespond(r)
  \/ \E call \in PendingCalls(r) : CancelFails(r, call)
  \/ ConfigUpsert(r) \/ ConfigRespond(r)
  \/ \E call \in PendingCalls(r) : ConfigFails(r, call)
  \/ GetConfigFind(r) \/ GetConfigCheck(r) \/ GetConfigInsert(r) \/ GetConfigRespond(r)
  \/ \E call \in PendingCalls(r) : GetConfigFails(r, call)

NextTerm ==
  \/ \E r \in Reqs : \E body \in TermCreateBodies : CreateValidate(r, body)
  \/ \E r \in Reqs : CreateCount(r)
  \/ \E r \in Reqs : CreateCheck(r)
  \/ \E r \in Reqs : CreateInsert(r)
  \/ \E r \in Reqs : CreateRespond(r)
  \/ \E r \in Reqs : \E call \in PendingCalls(r) : CreateFails(r, call)
  \/ \E r \in Reqs : \E body \in TermCancelBodies : CancelValidate(r, body)
  \/ \E r \in Reqs : CancelFind(r)
  \/ \E r \in Reqs : CancelCheck(r)
  \/ \E r \in Reqs : CancelDelete(r)
  \/ \E r \in Reqs : CancelRespond(r)
  \/ \E r \in Reqs : \E call \in PendingCalls(r) : CancelFails(r, call)
  \/ \E r \in Reqs : ConfigConnect(r, ConfigBody(JsNum(2)))
  \/ \E r \in Reqs : ConfigUpsert(r)
  \/ \E r \in Reqs : ConfigRespond(r)
  \/ \E r \in Reqs : \E call \in PendingCalls(r) : ConfigFails(r, call)
  \/ \E r \in Reqs : GetConfigConnect(r, GetConfigBody)
  \/ \E r \in Reqs : GetConfigFind(r)
  \/ \E r \in Reqs : GetConfigCheck(r)
  \/ \E r \in Reqs : GetConfigInsert(r)
  \/ \E r \in Reqs : GetConfigRespond(r)
  \/ \E r \in Reqs : \E call \in PendingCalls(r) : GetConfigFails(r, call)

\* overlapping requests of the four operations; every awaited call returns or
\* fails, and the continuation of a handler whose call has settled is run
SpecTerm == InitTerm /\ [][NextTerm]_vars /\ \A r \in 1..NumTerm : WF_vars(TermStep(r))

----------------------------------------------------------------------------
(* Claims *)

Max(S) == CHOOSE x \in S : \A y \in S : y <= x

CreatesFor(date, time, clinicEmail) ==
  {r \in Reqs : /\ req[r].kind = "create"
                /\ req[r].date = date /\ req[r].time = time
                /\ NormEmail(req[r].clinicEmail) = clinicEmail}

\* the most generous capacity any request or the configuration gives the slot
AppliedCapacity(date, time, clinicEmail) ==
  Max({maxSlotsOf(req[r]) : r \in CreatesFor(date, time, clinicEmail)}
      \cup {DefaultSlots}
      \cup (IF config = NoConfig THEN {} ELSE {config[1]}))

\* C1: in every reachable state, for every (date, time, clinicEmail) slot the
\* number of stored bookings that are neither cancelled nor no-show is at most
\* the capacity that applies to the slot.
C1_CapacityNeverExceeded ==
  \A b \in bookings :
     countDocuments(b.date, b.time, b.clinicEmail)
        <= AppliedCapacity(b.date, b.time, b.clinicEmail)

AllDone == \A r \in Reqs : pc[r] = "done"

Answered(code) == {r \in Reqs : resp[r] = code}

\* C2: when N >= capacity + 5 creations for one empty slot, all with the same
\* capacity, run concurrently, exactly `capacity` of them succeed and the other
\* N - capacity are answered 409.
C2_ExactlyCapacitySucceed ==
  AllDone =>
     LET capacity == maxSlotsOf(req[1]) IN
     /\ Cardinality(Answered(200)) = capacity
     /\ Cardinality(Answered(409)) = Cardinality(Reqs) - capacity

\* requests 1..r are creations for one slot, all with the same capacity, and
\* no cancellation has arrived
SameSlotCreations(r) ==
  /\ req[r].kind = "create"
  /\ \A q \in 1..r :
        /\ req[q].kind = "create"
        /\ req[q].date = req[r].date /\ req[q].time = req[r].time
        /\ NormEmail(req[q].clinicEmail) = NormEmail(req[r].clinicEmail)
        /\ maxSlotsOf(req[q]) = maxSlotsOf(req[r])
  /\ \A q \in Reqs : req[q].kind # "cancel"

StoredBy(r) == {b \in bookings : b._id = r}

\* C3: when creations for one slot with capacity c run one after another, with
\* no cancellation in between, the first c are answered 200 and each stores a
\* confirmed booking; every later one is answered 409 and stores nothing.
C3_FirstCSucceed ==
  \A r \in Reqs :
     (pc[r] = "done" /\ SameSlotCreations(r)) =>
        IF r <= maxSlotsOf(req[r])
        THEN /\ resp[r] = 200
             /\ Cardinality(StoredBy(r)) = 1
             /\ \A b \in StoredBy(r) : b.status = "confirmed"
        ELSE resp[r] = 409 /\ StoredBy(r) = {}

\* three creations with capacity 2 have run: two stored, the third refused
C3_Witness ==
  /\ SameSlotCreations(3)
  /\ \A r \in 1..3 : pc[r] = "done" /\ maxSlotsOf(req[r]) = 2
  /\ resp[1] = 200 /\ resp[2] = 200 /\ resp[3] = 409

\* request r arrives in this step
ArrivesNow(r) == pc[r] = "idle" /\ pc'[r] # "idle"

\* the handler of request r takes this step
StepsNow(r) == InFlight(r) /\ pc'[r] # pc[r]

\* C4: a creation with `date` or `time` missing is answered 400, whatever its
\* other fields and whatever is stored, and the stored bookings are the same
\* after the call as before.
C4_MissingDateOrTime ==
  [][\A r \in Reqs :
       (/\ ArrivesNow(r)
        /\ req'[r].kind = "create"
        /\ (req'[r].date = Missing \/ req'[r].time = Missing))
       => (resp'[r] = 400 /\ pc'[r] = "done" /\ bookings' = bookings)]_vars

\* a creation without a time, its other fields valid, was refused while a
\* booking is stored
C4_Witness ==
  \E r \in Reqs :
     /\ req[r].kind = "create" /\ req[r].time = Missing /\ req[r].date = Date1
     /\ req[r].email = "c@x.io"
     /\ resp[r] = 400
     /\ bookings # {}

\* C5: a cancellation with the id of a stored booking and a token that is not
\* that booking's token is answered 404 and leaves that booking stored, for
\* the client and for the owner.
C5_WrongTokenNotFound ==
  [][\A r \in Reqs : \A b \in bookings :
       (/\ req[r].kind = "cancel"
        /\ StepsNow(r)
        /\ b.id = req[r].id /\ b.cancelToken # req[r].token)
       => (b \in bookings' /\ resp'[r] \in {0, 404})]_vars

\* the appointment of booking b is less than 6 hours after the clock
LessThanSixHoursAway(b) ==
  LET at == bookingDateTime(b.date, b.time) IN
  at # JsNaN /\ at.v - clock < 6 * 3600000

\* C6: for a cancellation whose id and token matched booking b: from a client
\* it is answered 400 with the bookings untouched if and only if the
\* appointment is less than 6 hours away (exactly 6 hours passes, a past
\* appointment is refused), and otherwise it goes on to the delete; from the
\* owner it always goes on to the delete; and what follows the delete is 200.
C6_SixHourRule ==
  [][\A r \in Reqs :
       /\ (pc[r] = "found" /\ pc'[r] # "found" /\ loc[r].booking # NoBooking) =>
             IF req[r].owner
             THEN pc'[r] = "delete" /\ resp'[r] = 0
             ELSE /\ (resp'[r] = 400 /\ bookings' = bookings)
                        <=> LessThanSixHoursAway(loc[r].booking)
                  /\ ~LessThanSixHoursAway(loc[r].booking)
                        => (pc'[r] = "delete" /\ resp'[r] = 0)
       /\ (pc[r] = "delete" /\ pc'[r] # "delete") => pc'[r] = "deleted"
       /\ (pc[r] = "deleted" /\ pc'[r] # "deleted") => resp'[r] = 200]_vars

\* a client's cancellation has passed exactly 6 hours before the appointment
C6_Witness ==
  \E r \in Reqs :
     /\ req[r].kind = "cancel" /\ ~req[r].owner
     /\ resp[r] = 200
     /\ clock = bookingDateTime(Date1, Time1).v - 6 * 3600000

\* the occupied count of the slot of booking b
Occupied(b) == countDocuments(b.date, b.time, b.clinicEmail)

\* C7: after a successful cancellation of a stored booking the occupied count
\* of that booking's slot is one lower (so the slot is released: create,
\* cancel, create again succeeds at capacity 1).
C7_CancelFreesSlot ==
  [][\A r \in Reqs :
       (pc[r] = "delete" /\ pc'[r] = "deleted" /\ loc[r].booking \in bookings)
       => Occupied(loc[r].booking)' = Occupied(loc[r].booking) - 1]_vars

\* request q, answered 200, was a cancellation with the id and token of request r
CancelledBefore(q, r) ==
  /\ q < r
  /\ req[q].kind = "cancel" /\ resp[q] = 200
  /\ req[q].id = req[r].id /\ req[q].token = req[r].token

\* C8: of two cancellations with the same valid id and token, run one after
\* the other, the first is answered 200 and the second 404; the second changes
\* no state and dispatches no notification.
C8_SecondCancelNotFound ==
  [][\A r \in Reqs :
       (/\ req[r].kind = "cancel"
        /\ StepsNow(r)
        /\ \E q \in Reqs : CancelledBefore(q, r))
       => (resp'[r] \in {0, 404} /\ bookings' = bookings /\ sent' = sent)]_vars

\* the capacity the claim gives a creation: its own slotsPerHour, else the
\* stored configuration, else 1
ClaimedCapacity(b) ==
  IF Truthy(b.slotsPerHour) THEN b.slotsPerHour.v
  ELSE IF config # NoConfig THEN config[1]
  ELSE 1

\* C9: the effective capacity of a creation is the request's slotsPerHour when
\* it carries one, otherwise the slotsPerHour of the Configuration Store, and
\* 1 only when neither exists.
C9_CapacityFromConfig ==
  [][\A r \in Reqs :
       (pc[r] = "count" /\ pc'[r] = "check")
       => loc'[r].maxSlots = ClaimedCapacity(req[r])]_vars

\* C10: no two stored bookings have the same id, and a booking created later
\* never has a smaller id than one created earlier.
C10_IdsUnique ==
  \A a, b \in bookings :
     /\ a # b => a.id # b.id
     /\ a.createdAt < b.createdAt => a.id <= b.id

----------------------------------------------------------------------------
\* C11: capacity is counted per tenant: a creation with a capacity of at least
\* 1 is answered 409 only when another creation of the same tenant for the
\* same date and time has inserted its booking; the bookings of other tenants
\* at that date and time never make it fail.
Inserted(q) == pc[q] = "created" \/ (pc[q] = "done" /\ resp[q] = 200)

SameTenantSlot(q, r) ==
  /\ req[q].kind = "create"
  /\ req[q].date = req[r].date /\ req[q].time = req[r].time
  /\ NormEmail(req[q].clinicEmail) = NormEmail(req[r].clinicEmail)

C11_CountedPerTenant ==
  \A r \in Reqs :
     (req[r].kind = "create" /\ resp[r] = 409 /\ maxSlotsOf(req[r]) >= 1)
     => \E q \in Reqs \ {r} : SameTenantSlot(q, r) /\ Inserted(q)

\* two tenants each hold a booking at the same date and time with capacity 1,
\* and a further creation was answered 409
C11_Witness ==
  /\ \E a, b \in bookings :
        a.clinicEmail # b.clinicEmail /\ a.date = b.date /\ a.time = b.time
  /\ \E r \in Reqs : req[r].kind = "create" /\ resp[r] = 409

----------------------------------------------------------------------------
\* C12: a stored booking leaves the repository only in the deleteOne step of
\* a cancel request that presented the booking's id and its cancelToken, and
\* no step replaces a stored booking by a changed one.
CancelDeleting(r, b) ==
  /\ req[r].kind = "cancel"
  /\ pc[r] = "delete" /\ pc'[r] = "deleted"
  /\ req[r].id = b.id /\ req[r].token = b.cancelToken

C12_OnlyCancelRemoves ==
  [][\A b \in bookings :
       /\ b \notin bookings' => \E r \in Reqs : CancelDeleting(r, b)
       /\ \A c \in bookings' : c._id = b._id => c = b]_vars

----------------------------------------------------------------------------
\* C13: a getConfig that is the first request to touch the config store
\* answers slotsPerHour = 1 and leaves that record stored; a getConfig that
\* directly follows an answered getConfig answers the same value, which is the
\* stored one, and none of its steps writes the store.
OnEmptyStore(r) == \A q \in 1..(r - 1) : req[q].kind \notin {"getConfig", "setConfig"}

FollowsGetConfig(r) == r > 1 /\ req[r - 1].kind = "getConfig" /\ resp[r - 1] = 200

C13_GetConfigPersistsDefault ==
  [][\A r \in Reqs :
       (req[r].kind = "getConfig" /\ StepsNow(r)) =>
          /\ (OnEmptyStore(r) /\ pc'[r] = "done") =>
                (resp'[r] = 200 /\ data'[r] = <<1>> /\ config' = <<1>>)
          /\ FollowsGetConfig(r) =>
                /\ config' = config
                /\ pc'[r] = "done" =>
                      (resp'[r] = 200 /\ data'[r] = data[r - 1] /\ data'[r] = config)]_vars

\* two getConfig in a row on a fresh store, both answered with slotsPerHour = 1
C13_Witness ==
  /\ req[1].kind = "getConfig" /\ req[2].kind = "getConfig"
  /\ resp[1] = 200 /\ resp[2] = 200
  /\ data[1] = <<1>> /\ data[2] = <<1>>
  /\ config = <<1>>

----------------------------------------------------------------------------
\* C14: the upsert of every setConfig stores a positive slotsPerHour, and
\* stores 1 when the input is not a positive integer.
PositiveInteger(x) ==
  \/ x.t = "number" /\ x.v > 0
  \/ /\ x.t = "string" /\ x.s # <<>>
     /\ \A i \in 1..Len(x.s) : x.s[i] \in DOMAIN DigitOf
     /\ \E i \in 1..Len(x.s) : x.s[i] # "0"

C14_StoredCapacityPositive ==
  [][\A r \in Reqs :
       (req[r].kind = "setConfig" /\ pc[r] = "upsert" /\ pc'[r] = "upserted") =>
          /\ config'[1] > 0
          /\ ~PositiveInteger(req[r].slotsPerHour) => config'[1] = 1]_vars

----------------------------------------------------------------------------
\* C15: however a notification ends (delivered, refused by the mail API, an
\* exception, skipped), the request that dispatched it stays answered 200, and
\* the step in which a notification ends changes no booking, no response and
\* no handler.
C15_SinkFailureHarmless ==
  [][/\ \A o \in settled' : resp'[o.by] = 200
     /\ settled' # settled =>
          (bookings' = bookings /\ config' = config /\ resp' = resp /\ pc' = pc)]_vars

\* a creation whose e-mail threw and a cancellation whose e-mail was refused,
\* both answered 200, the booking gone
C15_Witness ==
  /\ \E o \in settled :
        req[o.by].kind = "create" /\ o.outcome = "threw" /\ resp[o.by] = 200
  /\ \E o \in settled :
        req[o.by].kind = "cancel" /\ o.outcome = "refused" /\ resp[o.by] = 200
  /\ bookings = {}

----------------------------------------------------------------------------
\* C16: once the insert of a creation or the delete of a cancellation has been
\* issued, the request is eventually answered 200, also in the behaviours
\* where its notifications never complete.
C16_RespondsWithoutDelivery ==
  \A r \in 1..NumFair : (pc[r] \in {"insert", "delete"}) ~> (resp[r] = 200)

\* a request is answered 200 while a notification it dispatched is not complete
C16_Witness ==
  \E m \in sent : ~Completed(m) /\ resp[m.by] = 200 /\ pc[m.by] = "done"

----------------------------------------------------------------------------
\* C17: the step that answers a cancellation with 200 dispatches the owner
\* cancellation notice exactly when the request is not the owner's; a
\* cancellation that has not succeeded (in progress, or answered 400 or 404)
\* has dispatched no notification.
OwnerNotices(r, mails) ==
  {m \in mails : m.by = r /\ m.mail = "sendOwnerCancellationNotification"}

C17_OwnerNoticeIffClient ==
  [][\A r \in Reqs :
       (req'[r].kind = "cancel" /\ (ArrivesNow(r) \/ StepsNow(r))) =>
          IF pc'[r] = "done" /\ resp'[r] = 200
          THEN (OwnerNotices(r, sent' \ sent) # {}) <=> ~req'[r].owner
          ELSE \A m \in sent' : m.by # r]_vars

\* a client's cancellation answered 200 with the owner notice dispatched
C17_Witness ==
  \E r \in Reqs :
     /\ req[r].kind = "cancel" /\ ~req[r].owner /\ resp[r] = 200
     /\ \E m \in OwnerNotices(r, sent) : m.to = "a@b.com"

----------------------------------------------------------------------------
\* C18: the step that answers the cancellation of a booking with a client
\* e-mail with 200 dispatches exactly one e-mail to that client: the apologetic
\* one when the owner cancels, the neutral one otherwise.
ClientNotices(r, mails) ==
  {m \in mails : m.by = r /\ m.mail \in {"sendOwnerCancelledClientEmail",
                                         "sendCancellationEmail"}}

C18_OneClientNotice ==
  [][\A r \in Reqs :
       (req[r].kind = "cancel" /\ pc[r] = "deleted" /\ pc'[r] = "done"
          /\ loc[r].booking.email # "") =>
          /\ resp'[r] = 200
          /\ Cardinality(ClientNotices(r, sent' \ sent)) = 1
          /\ \A m \in ClientNotices(r, sent' \ sent) :
                /\ m.to = loc[r].booking.email
                /\ m.mail = "sendOwnerCancelledClientEmail" <=> req[r].owner]_vars

\* the owner's cancellation answered 200 with the apologetic e-mail dispatched
C18_Witness ==
  \E r \in Reqs :
     /\ req[r].kind = "cancel" /\ req[r].owner /\ resp[r] = 200
     /\ \E m \in ClientNotices(r, sent) :
           m.mail = "sendOwnerCancelledClientEmail" /\ m.to = "c@x.io"

----------------------------------------------------------------------------
\* C19: under overlapping first calls of connectDB at most one client is ever
\* created, and all callers that have received a handle hold the same one.
C19_OneConnection ==
  /\ Cardinality(clients) <= 1
  /\ \A r, q \in Reqs :
        (loc[r].database # NoDb /\ loc[q].database # NoDb) =>
           loc[r].database = loc[q].database

----------------------------------------------------------------------------
\* C20: when the details request has found its booking, it answers 200 with
\* the booking's summary whatever canCancel is, and canCancel is true exactly
\* when the cancel handler's 6-hour rule, applied to that booking at the same
\* instant, does not reject a client; no step of a details request changes a
\* booking or the config.
C20_DetailsAgreeWithCancel ==
  [][\A r \in Reqs :
       (req'[r].kind = "details" /\ (ArrivesNow(r) \/ StepsNow(r))) =>
          /\ bookings' = bookings /\ config' = config
          /\ (pc[r] = "looked" /\ loc[r].booking # NoBooking) =>
                /\ resp'[r] = 200
                /\ data'[r].booking.id = loc[r].booking.id
                /\ data'[r].canCancel <=> ~TooLate(loc[r].booking)]_vars

\* the request r presents the id of a stored booking and a token that none of
\* the stored bookings of that id carries
WrongTokenCase(r) ==
  /\ IdMatches(req[r].id) # {}
  /\ \A b \in IdMatches(req[r].id) : b.cancelToken # req[r].token

\* no booking was ever given the id that r presents
NeverExistedCase(r) ==
  /\ IdMatches(req[r].id) = {}
  /\ \A q \in Reqs : (req[q].kind = "create" /\ loc[q].booking # NoBooking)
                         => loc[q].booking.id # req[r].id
  /\ \A q \in Created : data[q].bookingId # req[r].id

\* r presents the id and the token of a booking that was stored and is gone
AlreadyCancelledCase(r) ==
  \E q \in Created : /\ req[r].id = data[q].bookingId
                      /\ req[r].token = generateCancelToken(q)
                      /\ \A b \in bookings : b._id # q

\* the look-up of r runs now
LooksUpNow(r) == pc[r] \in {"find", "look"} /\ pc'[r] \in {"found", "looked"}

\* C21: a cancel or details request whose token is wrong for the id, whose id
\* never existed, or whose booking is already cancelled finds nothing, and
\* whoever finds nothing gets one and the same answer: 404 with the same body,
\* from both endpoints
C21_NotFoundIndistinguishable ==
  [][\A r \in Reqs :
       /\ (LooksUpNow(r) /\ (WrongTokenCase(r) \/ NeverExistedCase(r) \/ AlreadyCancelledCase(r)))
            => loc'[r].booking = NoBooking
       /\ (pc[r] \in {"found", "looked"} /\ loc[r].booking = NoBooking)
            => (resp'[r] = 404 /\ data'[r] = CancelNotFound /\ data'[r] = DetailsNotFound)]_vars

\* the three cases have been answered, by either endpoint: a wrong token for a
\* stored booking, an id that never existed, the booking cancelled before
C21_Witness ==
  \E q \in Created : \E w, n, c, a \in Reqs :
    /\ q < w /\ w < c /\ c < a
    /\ \A r \in {w, n, a} : req[r].kind \in {"cancel", "details"}
    /\ req[w].id = data[q].bookingId /\ req[w].token = WrongToken
    /\ req[n].id = UnknownId
    /\ req[c].kind = "cancel" /\ req[c].token = generateCancelToken(q) /\ resp[c] = 200
    /\ req[a].id = data[q].bookingId /\ req[a].token = generateCancelToken(q)
    /\ req[w].kind # req[a].kind
    /\ \A r \in {w, n, a} : pc[r] = "done" /\ resp[r] = 404 /\ data[r] = CancelNotFound

\* the stored bookings of a date and time, of every tenant and status
StoredAt(date, time) == {b \in bookings : b.date = date /\ b.time = time}

\* C22: the counts that GET /api/bookings answers hold, under the key of each
\* date and time, the number of stored bookings of that date and time over all
\* tenants and statuses, and hold a key only for a date and time that has a
\* stored booking
C22_CountsPerDateTime ==
  [][\A r \in Reqs :
       (pc[r] = "counted" /\ pc'[r] = "done") =>
         /\ resp'[r] = 200
         /\ \A b \in bookings :
               /\ <<b.date, "-", b.time>> \in DOMAIN data'[r].bookings
               /\ data'[r].bookings[<<b.date, "-", b.time>>] =
                    Cardinality(StoredAt(b.date, b.time))
         /\ \A k \in DOMAIN data'[r].bookings :
               \E b \in bookings : k = <<b.date, "-", b.time>>]_vars

\* counts were answered, after a cancellation had removed a booking, while two
\* tenants held bookings of one date and time with different statuses
C22_Witness ==
  \E r, c \in Reqs :
    /\ req[r].kind = "counts" /\ pc[r] = "done"
    /\ req[c].kind = "cancel" /\ resp[c] = 200 /\ c < r
    /\ \A q \in Reqs : q > r => pc[q] = "idle"
    /\ data[r].bookings = (<<Date1, "-", Time1>> :> 2)
    /\ \E a, b \in bookings : a.clinicEmail # b.clinicEmail /\ a.status # b.status

\* the stored bookings of the date, time and tenant of the creation r
SlotBookings(r) ==
  {b \in bookings : /\ b.date = req[r].date /\ b.time = req[r].time
                    /\ b.clinicEmail = NormEmail(req[r].clinicEmail)}

\* those of them that are neither cancelled nor no-show
ActiveBookings(r) ==
  (SlotBookings(r) \ {b \in bookings : b.status = "cancelled"})
     \ {b \in bookings : b.status = "no-show"}

\* C24: a creation is refused as fully booked exactly when the bookings of its
\* slot that are neither cancelled nor no-show reach the capacity; cancelled
\* and no-show bookings do not count
C24_CancelledNotCounted ==
  [][\A r \in Reqs :
       /\ (pc[r] = "count" /\ pc'[r] = "check")
            => loc'[r].existingCount = Cardinality(ActiveBookings(r))
       /\ (pc[r] = "check" /\ pc'[r] # "check")
            => (resp'[r] = 409 <=> Cardinality(ActiveBookings(r)) >= maxSlotsOf(req[r]))]_vars

\* a creation for a slot of capacity 1 was answered 200 and stored while a
\* cancelled and a no-show booking of that slot were stored
C24_Witness ==
  \E r \in Reqs :
    /\ req[r].kind = "create" /\ pc[r] = "done" /\ resp[r] = 200
    /\ maxSlotsOf(req[r]) = 1
    /\ \E b \in SlotBookings(r) : b._id = r
    /\ \E b \in SlotBookings(r) : b.status = "cancelled"
    /\ \E b \in SlotBookings(r) : b.status = "no-show"

\* C26: the answer of GET /api/bookings/all holds every stored booking and
\* nothing else, each once, and no booking comes before one created later
C26_ListNewestFirst ==
  [][\A r \in Reqs :
       (pc[r] = "listed" /\ pc'[r] = "done") =>
         /\ resp'[r] = 200
         /\ Len(data'[r].bookings) = Cardinality(bookings)
         /\ {data'[r].bookings[i] : i \in DOMAIN data'[r].bookings} = bookings
         /\ \A i, j \in DOMAIN data'[r].bookings :
               i < j => data'[r].bookings[i].createdAt >= data'[r].bookings[j].createdAt]_vars

\* a list of three bookings or more was answered, the first created after
\* the last, two of them created in the same millisecond
C26_Witness ==
  \E r \in Reqs :
    /\ req[r].kind = "list" /\ pc[r] = "done"
    /\ Len(data[r].bookings) >= 3
    /\ data[r].bookings[1].createdAt > data[r].bookings[Len(data[r].bookings)].createdAt
    /\ \E i \in DOMAIN data[r].bookings :
          i > 1 /\ data[r].bookings[i].createdAt = data[r].bookings[i - 1].createdAt

\* the creation r carries a date, a time or an address of the wrong shape
Malformed(r) ==
  /\ req[r].kind = "create"
  /\ req[r].date \in BadDates \/ req[r].time \in BadTimes \/ req[r].email \in BadEmails

\* the pending calls of r on the database
AtRepository(r) == pc[r] \in {"count", "check", "insert", "created"}

\* C23: a creation whose date, time or address has the wrong shape is answered
\* 400 in the step it arrives in, never has a call pending on the database,
\* and stores no booking
C23_MalformedRejected ==
  [][\A r \in Reqs :
       /\ (ArrivesNow(r) /\ Malformed(r)')
            => (resp'[r] = 400 /\ pc'[r] = "done" /\ bookings' = bookings)
       /\ Malformed(r)'
            => (~AtRepository(r)' /\ \A b \in bookings' : b._id # r)]_vars

\* a malformed date, a malformed time and a malformed address have each been
\* answered 400
C23_Witness ==
  /\ \E r \in Reqs : Malformed(r) /\ resp[r] = 400 /\ req[r].date \in BadDates
  /\ \E r \in Reqs : Malformed(r) /\ resp[r] = 400 /\ req[r].time \in BadTimes
  /\ \E r \in Reqs : Malformed(r) /\ resp[r] = 400 /\ req[r].email \in BadEmails

\* the creation r is answered now
CreateAnswersNow(r, codes) ==
  req'[r].kind = "create" /\ pc[r] # "done" /\ pc'[r] = "done" /\ resp'[r] \in codes

\* one of the senders is called for r now
DispatchedNow(r, sender) == \E m \in sent' \ sent : m.by = r /\ m.mail = sender

\* C30: the step that answers a creation 400 or 409 leaves the bookings and
\* the configuration as they are and dispatches nothing, and nothing was
\* stored or dispatched for it before; the step that answers a creation 200
\* calls the confirmation sender iff the request carried an email and the
\* owner sender iff it carried a clinicEmail, with the booking already
\* stored; and no other step calls a sender
C30_CreateEffects ==
  [][/\ \A r \in Reqs :
          CreateAnswersNow(r, {400, 409}) =>
            /\ bookings' = bookings /\ config' = config /\ sent' = sent
            /\ \A m \in sent : m.by # r
            /\ \A b \in bookings : b._id # r
     /\ \A r \in Reqs :
          CreateAnswersNow(r, {200}) =>
            /\ DispatchedNow(r, "sendConfirmationEmail") <=> req[r].email # ""
            /\ DispatchedNow(r, "sendOwnerBookingNotification") <=> req[r].clinicEmail # ""
            /\ \E b \in bookings : b._id = r
     /\ \A m \in sent' \ sent : CreateAnswersNow(m.by, {200})]_vars

\* a creation with an email and no clinicEmail was stored and confirmed to the
\* client only, a second one for its slot was answered 409 and a malformed one
\* 400, both without an e-mail
C30_Witness ==
  \E ok, full, bad \in Reqs :
    /\ req[ok].kind = "create" /\ resp[ok] = 200
    /\ req[ok].email # "" /\ req[ok].clinicEmail = ""
    /\ {m.mail : m \in {n \in sent : n.by = ok}} = {"sendConfirmationEmail"}
    /\ \E b \in bookings : b._id = ok
    /\ req[full].kind = "create" /\ resp[full] = 409
    /\ req[bad].kind = "create" /\ resp[bad] = 400
    /\ \A m \in sent : m.by = ok

\* the cancelTokens in the data answered to r
TokensAnswered(r) ==
  IF pc[r] # "done" \/ data[r] = NoData THEN {}
  ELSE IF req[r].kind = "list"
       THEN {data[r].bookings[i].cancelToken : i \in DOMAIN data[r].bookings}
  ELSE IF req[r].kind = "details" /\ resp[r] = 200
       THEN (IF "cancelToken" \in DOMAIN data[r].booking
             THEN {data[r].booking.cancelToken} ELSE {})
  ELSE IF "cancelToken" \in DOMAIN data[r] THEN {data[r].cancelToken}
  ELSE {}

\* the tokens r presented
TokensPresented(r) == IF "token" \in DOMAIN req[r] THEN {req[r].token} ELSE {}

\* C27: the data answered to a request holds no cancelToken but one the request
\* presented itself, whether it is a creation, a count, a list or a look at
\* the cancel page
C27_TokenNotDisclosed ==
  \A r \in Reqs : TokensAnswered(r) \subseteq TokensPresented(r)

\* the cancel requests that presented the id and the token of the booking of
\* the creation q and were answered 200
SucceededFor(q) ==
  {c \in Reqs : /\ req[c].kind = "cancel" /\ pc[c] = "done" /\ resp[c] = 200
                /\ req[c].id = data[q].bookingId
                /\ req[c].token = generateCancelToken(q)}

\* C28: of the cancel requests that present the id and the token of one
\* booking, whose id no other booking shares, at most one is answered 200 and
\* at most one has the cancellation e-mails dispatched
C28_OneCancelSucceeds ==
  \A q \in Created :
    (\A p \in Created : p # q => data[p].bookingId # data[q].bookingId) =>
      /\ Cardinality(SucceededFor(q)) <= 1
      /\ Cardinality({m.by : m \in {n \in sent : n.by \in SucceededFor(q)}}) <= 1

\* C29: the deleteOne step of a cancel request removes the booking its findOne
\* matched by id and token, and leaves every other booking stored
C29_CancelRemovesMatched ==
  [][\A r \in Reqs :
       (req[r].kind = "cancel" /\ pc[r] = "delete" /\ pc'[r] = "deleted")
         => bookings' = bookings \ {loc[r].booking}]_vars

\* the creations of the client IP that have arrived
Arrived == {r \in Reqs : pc[r] # "idle" /\ "at" \in DOMAIN req[r]}

\* those that reached the handler
ReachedHandler == {r \in Arrived : ~(pc[r] = "done" /\ resp[r] = 429)}

\* a request answered 429 never reached the handler and stored nothing
RefusedStoresNothing ==
  \A r \in Arrived \ ReachedHandler : pc[r] = "done" /\ \A b \in bookings : b._id # r

RECURSIVE WindowStart(_)
WindowStart(r) ==
  IF r = 1 THEN req[r].at
  ELSE LET before == WindowStart(r - 1)
       IN  IF req[r].at < before + 60 * 1000 THEN before ELSE req[r].at

\* the requests that arrived in the counting window of r before r
EarlierInWindow(r) == {q \in Arrived : q < r /\ WindowStart(q) = WindowStart(r)}

WindowRejected(c, id, token) ==
  /\ req[c].kind = "cancel" /\ ~req[c].owner
  /\ req[c].id = id /\ req[c].token = token
  /\ pc[c] = "done" /\ resp[c] = 400

\* C31: once a client's cancellation of a booking has been refused by the
\* 6-hour rule, a client's cancellation of that booking that is decided later
\* is refused as well (400, or 404 when the booking is gone) and removes
\* nothing, while the owner's cancellation that finds the booking goes on to
\* the delete and is answered 200
C31_WindowOnlyCloses ==
  [][\A r \in Reqs :
       /\ (req[r].kind = "cancel" /\ pc[r] = "found" /\ pc'[r] # "found") =>
            /\ (~req[r].owner /\ \E c \in Reqs : WindowRejected(c, req[r].id, req[r].token))
                 => /\ pc'[r] = "done"
                    /\ resp'[r] = IF loc[r].booking = NoBooking THEN 404 ELSE 400
                    /\ bookings' = bookings
            /\ (req[r].owner /\ loc[r].booking # NoBooking) => pc'[r] = "delete"
       /\ (req[r].kind = "cancel" /\ req[r].owner /\ pc[r] = "deleted" /\ pc'[r] = "done")
            => resp'[r] = 200]_vars

\* two cancellations of the client were refused one after the other, and then
\* the owner's cancellation of the same booking was answered 200
C31_Witness ==
  \E c, d, o \in Reqs :
    /\ c < d /\ d < o
    /\ req[o].kind = "cancel" /\ req[o].owner /\ pc[o] = "done" /\ resp[o] = 200
    /\ WindowRejected(c, req[o].id, req[o].token)
    /\ WindowRejected(d, req[o].id, req[o].token)


\* C32: a step that stores a booking stores it with status confirmed, no step
\* changes the status of a stored booking, and when a cancellation is answered
\* 200 no booking with the id and the token of the request is stored
C32_ConfirmedThenDeleted ==
  [][/\ \A b \in bookings' : b \notin bookings => b.status = "confirmed"
     /\ \A b \in bookings : \A c \in bookings' : c._id = b._id => c.status = b.status
     /\ \A r \in Reqs :
          (req[r].kind = "cancel" /\ pc[r] = "deleted" /\ pc'[r] = "done" /\ resp'[r] = 200)
            => \A b \in bookings' : ~(b.id = req[r].id /\ b.cancelToken = req[r].token)]_vars


\* C33: every read and every write of the configuration that has been
\* answered, however the requests overlap, has been answered 200 and has left
\* the config record stored
C33_ConfigRequestsSucceed ==
  \A r \in Reqs :
    (req[r].kind \in {"getConfig", "setConfig"} /\ pc[r] = "done")
      => (resp[r] = 200 /\ config # NoConfig)


\* C34: the capacity a creation compares with is 1 or more, and a creation
\* that counted no booking in its slot is not answered 409
C34_CapacityAtLeastOne ==
  [][\A r \in Reqs :
       /\ (pc[r] = "count" /\ pc'[r] = "check") => loc'[r].maxSlots >= 1
       /\ (pc[r] = "check" /\ pc'[r] # "check" /\ loc[r].existingCount = 0)
            => resp'[r] # 409]_vars


\* the operations that are to leave the bookings alone
ReadingKinds == {"getConfig", "setConfig", "slots", "counts", "list", "details"}

\* C35: no step of a getConfig, a setConfig, the config/slots alias, the
\* counts, the list or the details changes the stored bookings, and no step
\* of the alias changes the stored configuration either
C35_ReadsLeaveBookings ==
  [][\A r \in Reqs :
       ((ArrivesNow(r) \/ StepsNow(r)) /\ req'[r].kind \in ReadingKinds)
         => /\ bookings' = bookings
            /\ req'[r].kind = "slots" => config' = config]_vars

\* with a booking stored, the alias answered the default while no config
\* record existed, and a later setConfig stored one; the booking is as it was
C35_Witness ==
  \E q, a, c \in Reqs :
    /\ q < a /\ a < c
    /\ req[q].kind = "create" /\ resp[q] = 200 /\ \E b \in bookings : b._id = q
    /\ req[a].kind = "slots" /\ pc[a] = "done" /\ data[a].slotsPerHour = 1
    /\ req[c].kind = "setConfig" /\ pc[c] = "done" /\ config = <<2>>


\* the creation r has been answered 500
FailedCreate(r) == req[r].kind = "create" /\ resp[r] = 500

\* C36: a creation whose connect, count or insert fails is answered 500 in
\* that step, which dispatches and stores nothing; nothing of it is stored
\* and no e-mail of it was or will be dispatched; and once answered, its
\* handler takes no further step
C36_RepositoryFailure ==
  [][\A r \in Reqs :
       /\ (~FailedCreate(r) /\ FailedCreate(r)')
            => (pc[r] \in {"count", "insert"} /\ sent' = sent /\ bookings' = bookings)
       /\ FailedCreate(r)'
            => /\ pc'[r] = "done"
               /\ \A b \in bookings' : b._id # r
               /\ \A m \in sent' : m.by # r
       /\ (req[r].kind = "create" /\ pc[r] = "done")
            => (pc'[r] = "done" /\ resp'[r] = resp[r])]_vars

\* the connect, the count and the insert have each failed for a creation that
\* carried both addresses
C36_Witness ==
  \A call \in {"connectDB", "countDocuments", "insertOne"} :
    \E r \in Reqs : /\ FailedCreate(r) /\ data[r].error = call
                     /\ req[r].email # "" /\ req[r].clinicEmail # ""


\* the responses of the four operations
TermCodes == {200, 400, 404, 409, 500}

\* C37: a request of the four operations has no response until its handler
\* ends and one of 200, 400, 404, 409, 500 from then on, which no later step
\* changes; and every request that has arrived is answered
C37_OneResponse ==
  /\ [](\A r \in Reqs : resp[r] \in (IF pc[r] = "done" THEN TermCodes ELSE {0}))
  /\ [][\A r \in Reqs : (pc[r] = "done") => (pc'[r] = "done" /\ resp'[r] = resp[r])]_vars
  /\ \A r \in 1..NumTerm : (pc[r] # "idle") ~> (pc[r] = "done")

\* a creation has been answered 200, and the cancellation of its booking 500
\* after its deleteOne failed
C37_Witness ==
  \E q, c \in Reqs :
    /\ req[q].kind = "create" /\ pc[q] = "done" /\ resp[q] = 200
    /\ req[c].kind = "cancel" /\ pc[c] = "done" /\ resp[c] = 500
    /\ data[c].error = "deleteOne"


\* connectDB has returned a handle to the call of request r
Returned(r) == pc[r] \in {"connected", "done"} /\ loc[r].database # NoDb

\* C38: a connectDB that fails leaves db unset, and a call made while db is
\* unset opens a connection; a call made after a connectDB has returned a
\* handle returns that same handle at once, without opening a connection
C38_HandleKept ==
  [][\A r \in Reqs :
       /\ (pc[r] = "connecting" /\ pc'[r] = "done") => db' = NoDb
       /\ (ArrivesNow(r) /\ db = NoDb) => (pc'[r] = "connecting" /\ r \in clients')
       /\ \A a \in Reqs :
            (ArrivesNow(r) /\ Returned(a))
               => /\ pc'[r] = "connected"
                  /\ loc'[r].database = loc[a].database
                  /\ clients' = clients]_vars

============================================================================
